---- MODULE Spec2Model ----
(***************************************************************************)
(* Model of the request pipeline of marqeta-mcp.                           *)
(*                                                                         *)
(* RateLimiter (dist/src/client/rate-limiter.js): a bounded FIFO queue     *)
(* drained by one asynchronous loop, processQueue, behind an interval gate *)
(* and a concurrency gate.  The program is single-threaded: every action   *)
(* below is one synchronous run of JavaScript between two suspension       *)
(* points (an await, a timer, a promise callback).  Other callers, timers  *)
(* and the clock may act between any two of them.                          *)
(***************************************************************************)
EXTENDS Integers, Sequences, FiniteSets, TLC

\* ------------------------------------------------------------------ bounds

\* Number of execute calls made on the limiter in one run.
MaxCalls == 3
\* Largest maxConcurrent a limiter is constructed with.
MaxConcurrentCfg == 2
\* Largest maxQueueSize a limiter is constructed with.
MaxQueueCfg == 2
\* Milliseconds by which one step of the clock advances Date.now().
TickMs == 25
\* Number of tools/call requests a server run sends on to its client.
MaxHandled == 2
\* Top-level conversions made on one SchemaConverter.
MaxConversions == 2

\* ------------------------------------------------------- program constants

\* waitForConcurrencySlot: this.sleep(50)
PollMs == 50

\* intervalMs values a limiter is constructed with (0: no spacing; one below
\* and one above the polling period of the concurrency gate).
IntervalChoices == {0, 25, 100}

\* The largest of them.
MaxInterval == CHOOSE m \in IntervalChoices : \A x \in IntervalChoices : x <= m

Min(a, b) == IF a < b THEN a ELSE b
Max(a, b) == IF a > b THEN a ELSE b

\* The elements of a sequence.
Range(s) == {s[k] : k \in 1 .. Len(s)}

Requests == 1 .. MaxCalls

\* ------------------------------------------------------------------ values

\* JavaScript values that travel through the limiter.  type: "value" (what a
\* work item fulfils with), "Error" (an Error object; ref is its identity),
\* "string" (a primitive rejection value), "none".
NoValue == [type |-> "none", name |-> "", ref |-> <<>>, text |-> <<>>, info |-> <<>>]

\* The value work item i fulfils with.
ResultValue(i) ==
    [type |-> "value", name |-> "", ref |-> <<"work", i>>,
     text |-> <<"result", i>>, info |-> <<>>]

\* The Error object work item i rejects with (or throws).
WorkError(i) ==
    [type |-> "Error", name |-> "Error", ref |-> <<"work", i>>,
     text |-> <<"Test error", i>>, info |-> <<>>]

\* The string work item i rejects with (or throws): Promise.reject('String error').
WorkString(i) ==
    [type |-> "string", name |-> "", ref |-> <<>>,
     text |-> <<"String error", i>>, info |-> <<>>]

\* new Error(message), created by the limiter while it handles request i.
NewError(message, i) ==
    [type |-> "Error", name |-> "Error", ref |-> <<"limiter", i>>,
     text |-> message, info |-> <<>>]

\* String(error)
String(v) == v.text

\* error instanceof Error
InstanceOfError(v) == v.type = "Error"

\* Settlements of a promise.
Unsettled == [state |-> "pending", value |-> NoValue]
Fulfilled(v) == [state |-> "fulfilled", value |-> v]
Rejected(v) == [state |-> "rejected", value |-> v]

\* What a work item can settle with once invoked.
Outcomes(i) ==
    {Fulfilled(ResultValue(i)), Rejected(WorkError(i)), Rejected(WorkString(i))}

\* What a work item can throw synchronously when invoked.
Throws(i) == {WorkError(i), WorkString(i)}

\* ------------------------------------------------------------------- state

VARIABLES
    enabled,             \* this.enabled
    intervalMs,          \* this.intervalMs
    maxConcurrent,       \* this.maxConcurrent
    maxQueueSize,        \* this.maxQueueSize
    sinceLastRequest,    \* Date.now() - this.lastRequestTime, up to intervalMs
    concurrentRequests,  \* this.concurrentRequests
    requestQueue,        \* this.requestQueue, head first: each request by the
                         \* number of its call (its timestamp is never read)
    processing,          \* this.processing
    pc,                  \* where processQueue is suspended
    timer,               \* ms left on the pending this.sleep() (0: due, or none)
    calls,               \* number of execute calls made so far
    stage,               \* per call: where the request is
    outcome,             \* per call: settlement of the work item's own promise
    promise,             \* per call: settlement of the promise execute returned
    started,             \* calls whose work item was invoked, in order
    construction,        \* a run of new RateLimiter(config): process.env and
                         \* what the constructor gave
    converter,           \* a run of a SchemaConverter: what it was given and
                         \* how far it got
    client,              \* the HttpClient around the limiter: its latest call
                         \* and what axios gave each request
    server               \* the MarqetaMcpServer around the client

config == <<enabled, intervalMs, maxConcurrent, maxQueueSize>>
limiter == <<sinceLastRequest, concurrentRequests, requestQueue, processing>>
\* What lies around the limiter.
outer == <<construction, converter, client, server>>
vars == <<enabled, intervalMs, maxConcurrent, maxQueueSize, sinceLastRequest,
          concurrentRequests, requestQueue, processing, pc, timer, calls,
          stage, outcome, promise, started, construction, converter, client,
          server>>

\* process.env, the keys the limiter reads.
env == construction.env
\* What new RateLimiter(config) gave.
instance == construction.instance

\* The latest executeToolRequest call: tool, params and what the call did
\* before it returned.
lastCall == client.lastCall
\* Per call: what this.axios.request(config) gave.
response == client.response

\* this.config of the server: scope and service.
serverConfig == server.config
\* this.precompiledTools
precompiledTools == server.precompiledTools
\* this.filteredTools
filteredTools == server.filteredTools
\* The latest tools/call request and what its handler did before it returned
\* or first awaited.
invocation == server.invocation
\* Per call: the tool of the handler that awaits it.
handler == server.handler
\* Per call: what that handler returned.
reply == server.reply

Stages ==
    {"none",        \* execute not called yet
     "queued",      \* in requestQueue
     "running",     \* dispatched: executeRequest awaits request.execute()
     "delivered",   \* request.resolve / request.reject called, finally not run
     "released",    \* finally callback ran: concurrentRequests--
     "cleared",     \* rejected by clearQueue
     "full",        \* rejected by execute: queue full
     "direct",      \* limiter disabled: fn() running
     "directDone"}  \* limiter disabled: fn() settled

TypeOK ==
    /\ enabled \in BOOLEAN
    /\ intervalMs \in IntervalChoices
    /\ maxConcurrent \in 1 .. MaxConcurrentCfg
    /\ maxQueueSize \in 0 .. MaxQueueCfg
    /\ sinceLastRequest \in 0 .. intervalMs
    /\ concurrentRequests \in Int
    /\ requestQueue \in Seq(Requests)
    /\ processing \in BOOLEAN
    /\ pc \in {"idle", "rateSleep", "rateDone", "slotSleep", "slotDone"}
    /\ timer \in 0 .. Max(MaxInterval, PollMs)
    /\ calls \in 0 .. MaxCalls
    /\ stage \in [Requests -> Stages]
    /\ started \in Seq(Requests)

\* ------------------------------------------------------------- constructor

\* JavaScript values the constructor handles.
Undefined == [kind |-> "undefined"]
Bool(b) == [kind |-> "boolean", b |-> b]
Num(n) == [kind |-> "number", nan |-> FALSE, n |-> n]
NaN == [kind |-> "number", nan |-> TRUE, n |-> 0]
Str(chars) == [kind |-> "string", chars |-> chars]

\* a < b and a >= b on numbers: false whenever an operand is NaN.
LessThan(a, b) == ~a.nan /\ ~b.nan /\ a.n < b.n
AtLeast(a, b) == ~a.nan /\ ~b.nan /\ a.n >= b.n

\* a ?? b
Coalesce(a, b) == IF a.kind = "undefined" THEN b ELSE a

\* a || b, a a string or undefined: '' is falsy
OrElse(a, b) == IF a.kind = "undefined" \/ a.chars = <<>> THEN b ELSE a

DecimalDigits == <<"0", "1", "2", "3", "4", "5", "6", "7", "8", "9">>
IsDigit(c) == \E d \in 1 .. Len(DecimalDigits) : DecimalDigits[d] = c
DigitValue(c) == (CHOOSE d \in 1 .. Len(DecimalDigits) : DecimalDigits[d] = c) - 1

\* parseInt: leading white space is skipped.
RECURSIVE TrimStart(_)
TrimStart(s) ==
    IF s # <<>> /\ Head(s) = " " THEN TrimStart(Tail(s)) ELSE s

\* parseInt: the digits the string starts with; what follows them is ignored.
RECURSIVE DigitPrefix(_)
DigitPrefix(s) ==
    IF s = <<>> \/ ~IsDigit(Head(s)) THEN <<>>
    ELSE <<Head(s)>> \o DigitPrefix(Tail(s))

RECURSIVE Decimal(_)
Decimal(ds) ==
    IF ds = <<>> THEN 0
    ELSE 10 * Decimal(SubSeq(ds, 1, Len(ds) - 1)) + DigitValue(ds[Len(ds)])

\* parseInt(s, 10): white space, an optional sign, digits; NaN without a digit.
parseInt(s) ==
    LET t == TrimStart(s.chars)
        signed == t # <<>> /\ Head(t) \in {"-", "+"}
        negative == t # <<>> /\ Head(t) = "-"
        ds == DigitPrefix(IF signed THEN Tail(t) ELSE t)
    IN  IF ds = <<>> THEN NaN
        ELSE Num(IF negative THEN 0 - Decimal(ds) ELSE Decimal(ds))

\* Values of the environment variables in the runs checked: unset, empty,
\* integers of either sign, a number with a unit, white space, a word.
EnvValues ==
    {Undefined, Str(<<>>), Str(<<"0">>), Str(<<"3">>), Str(<<"-", "1">>),
     Str(<<"2", "5", "m", "s">>), Str(<<" ", "7">>), Str(<<"f", "a", "l", "s", "e">>)}

\* Values of MARQETA_RATE_LIMIT_ENABLED in the runs checked.
EnabledEnvValues == {Undefined, Str(<<"f", "a", "l", "s", "e">>), Str(<<"0">>)}

EnvKeys ==
    {"MARQETA_RATE_LIMIT_ENABLED", "MARQETA_RATE_LIMIT_INTERVAL_MS",
     "MARQETA_MAX_CONCURRENT_REQUESTS", "MARQETA_RATE_LIMIT_QUEUE_SIZE"}

\* The config objects passed to the constructor in the runs checked.
Configs ==
    [enabled : {Undefined, Bool(TRUE), Bool(FALSE)},
     intervalMs : {Undefined, Num(-1), Num(0), Num(25)},
     maxConcurrent : {Undefined, Num(0), Num(1), Num(2)},
     maxQueueSize : {Undefined, Num(-1), Num(0), Num(2)}]

\* No constructor has run.
NotBuilt == [kind |-> "none"]

\* constructor(config): the fields it assigns, then the validation.  The result
\* is the instance, or the error thrown (with the fields assigned before it).
constructor(cfg) ==
    LET fields ==
            [enabled |-> Coalesce(cfg.enabled,
                 Bool(env["MARQETA_RATE_LIMIT_ENABLED"] # Str(<<"f", "a", "l", "s", "e">>))),
             intervalMs |-> Coalesce(cfg.intervalMs,
                 parseInt(OrElse(env["MARQETA_RATE_LIMIT_INTERVAL_MS"],
                                 Str(<<"5", "0", "0">>)))),
             maxConcurrent |-> Coalesce(cfg.maxConcurrent,
                 parseInt(OrElse(env["MARQETA_MAX_CONCURRENT_REQUESTS"],
                                 Str(<<"2">>)))),
             maxQueueSize |-> Coalesce(cfg.maxQueueSize,
                 parseInt(OrElse(env["MARQETA_RATE_LIMIT_QUEUE_SIZE"],
                                 Str(<<"1", "0">>))))]
        thrown(message) == [kind |-> "thrown", message |-> message, fields |-> fields]
    IN  IF LessThan(fields.intervalMs, Num(0))
        THEN thrown("Rate limit interval must be non-negative")
        ELSE IF LessThan(fields.maxConcurrent, Num(1))
        THEN thrown("Max concurrent requests must be at least 1")
        ELSE IF LessThan(fields.maxQueueSize, Num(0))
        THEN thrown("Max queue size must be non-negative")
        ELSE [kind |-> "limiter", message |-> "", fields |-> fields]

\* executeToolRequest has not been called.
NoCall == [kind |-> "none"]

\* this.axios.request(config) has not settled.
NoResponse == [kind |-> "none"]

\* No tools/call request is being handled.
NoInvocation == [kind |-> "none"]

\* No handler awaits the call.
NoHandler == [name |-> ""]

\* The handler has not returned.
NoReply == [content |-> <<>>]

\* No constructor run is looked at: the limiter exists.
NoConstruction == [kind |-> "none"]

\* No converter is looked at.
NoConverter == [kind |-> "none"]

\* No client: the limiter is used on its own.
NoClient == [kind |-> "none"]

\* No server: the limiter or the client is used on its own.
NoServer == [kind |-> "none"]

\* new HttpClient(...): nothing called yet.
NewClient ==
    [lastCall |-> NoCall, response |-> [i \in Requests |-> NoResponse]]

\* new MarqetaMcpServer({config, httpClient}): no tools loaded yet.
NewServer(cfg) ==
    [config |-> cfg, precompiledTools |-> <<>>, filteredTools |-> <<>>,
     load |-> "none",
     invocation |-> NoInvocation, handler |-> [i \in Requests |-> NoHandler],
     reply |-> [i \in Requests |-> NoReply]]

\* Nothing around the limiter.
NoOuter ==
    /\ construction = NoConstruction
    /\ converter = NoConverter
    /\ client = NoClient
    /\ server = NoServer

\* constructor: a limiter exists only if the validation passed.  lastRequestTime
\* = 0 lies far in the past of Date.now(); the code only compares the time
\* elapsed since with intervalMs (waitTime > 0), so the model keeps it up to
\* intervalMs: anything above behaves alike.
LimiterInit ==
    /\ enabled \in BOOLEAN
    /\ intervalMs \in IntervalChoices
    /\ maxConcurrent \in 1 .. MaxConcurrentCfg
    /\ maxQueueSize \in 0 .. MaxQueueCfg
    /\ ~(intervalMs < 0) /\ ~(maxConcurrent < 1) /\ ~(maxQueueSize < 0)
    /\ sinceLastRequest = intervalMs
    /\ concurrentRequests = 0
    /\ requestQueue = <<>>
    /\ processing = FALSE
    /\ pc = "idle"
    /\ timer = 0
    /\ calls = 0
    /\ stage = [i \in Requests |-> "none"]
    /\ outcome = [i \in Requests |-> Unsettled]
    /\ promise = [i \in Requests |-> Unsettled]
    /\ started = <<>>

Init == LimiterInit /\ NoOuter

\* ------------------------------------------------------------ processQueue

\* execute: this.requestQueue.length >= this.maxQueueSize
QueueIsFullNever == FALSE
QueueIsFullOffByOne == Len(requestQueue) > maxQueueSize
QueueIsFull == Len(requestQueue) >= maxQueueSize

\* execute: if (!this.enabled) return fn()
SkipRateLimitingNever == FALSE
SkipRateLimiting == ~enabled

\* waitForRateLimit: waitTime = intervalMs - (Date.now() - lastRequestTime)
WaitTimeNone(since) == 0
WaitTime(since) == intervalMs - since

\* waitForConcurrencySlot: while (concurrentRequests >= maxConcurrent) sleep
SlotBusyOffByOne == concurrentRequests > maxConcurrent
SlotBusy == concurrentRequests >= maxConcurrent

\* processQueue: request = this.requestQueue.shift()
Pop(q) == [request |-> q[Len(q)], rest |-> SubSeq(q, 1, Len(q) - 1)]
Shift(q) == [request |-> Head(q), rest |-> Tail(q)]

\* execute: if (!this.processing) this.processQueue()
StartsLoopNever == FALSE
StartsLoopAlways == TRUE
StartsLoop == ~processing

\* processQueue, after the loop: this.processing = false
ProcessingAfterLoopStuck == TRUE
ProcessingAfterLoop == FALSE

\* executeRequest: error instanceof Error ? error : new Error(String(error))
CoerceNever(error, i) == error
CoerceAlways(error, i) == NewError(String(error), i)
Coerce(error, i) ==
    IF InstanceOfError(error) THEN error ELSE NewError(String(error), i)

\* executeRequest: what request.resolve / request.reject is called with, given
\* the settlement o of request.execute().
Settlement(o, i) ==
    IF o.state = "fulfilled" THEN Fulfilled(o.value)
    ELSE Rejected(Coerce(o.value, i))

\* estimatedWaitTime: Math.max(Math.ceil(len / maxConcurrent) * intervalMs, intervalMs)
estimatedWaitTime ==
    LET len == Len(requestQueue)
        concurrencyFactor == (len + maxConcurrent - 1) \div maxConcurrent
    IN  Max(concurrencyFactor * intervalMs, intervalMs)

\* createQueueFullError
createQueueFullError(i) ==
    [type |-> "Error", name |-> "RateLimitQueueFullError", ref |-> <<"limiter", i>>,
     text |-> <<"Rate limit queue is full", 0>>,
     info |-> <<estimatedWaitTime, Len(requestQueue), maxQueueSize>>]

\* clearQueue: how many requests its while loop shifts and rejects.
ClearCountOne(q) == Min(1, Len(q))
ClearCount(q) == Len(q)

\* processQueue from the loop test to its next suspension, with queue q and
\* `since` ms elapsed since the last dispatch:
\*   while (queue.length > 0) { await this.waitForRateLimit(); ...
\*   this.processing = false
LoopHead(q, since) ==
    IF Len(q) > 0
    THEN IF WaitTime(since) > 0
         THEN /\ pc' = "rateSleep"           \* await this.sleep(waitTime)
              /\ timer' = WaitTime(since)
              /\ processing' = TRUE
         ELSE /\ pc' = "rateDone"            \* await of a call that returned
              /\ timer' = 0
              /\ processing' = TRUE
    ELSE /\ pc' = "idle"
         /\ timer' = 0
         /\ processing' = ProcessingAfterLoop

\* waitForConcurrencySlot from its loop test to its next suspension.
SlotGate ==
    IF SlotBusy
    THEN /\ pc' = "slotSleep"                \* await this.sleep(50)
         /\ timer' = PollMs
    ELSE /\ pc' = "slotDone"
         /\ timer' = 0

\* execute, limiter disabled: return fn().  fn is invoked within the call; it
\* returns a pending promise or throws.
ExecuteDirect(i) ==
    /\ \/ /\ stage' = [stage EXCEPT ![i] = "direct"]
          /\ UNCHANGED <<outcome, promise>>
       \/ \E e \in Throws(i) :
          /\ stage' = [stage EXCEPT ![i] = "directDone"]
          /\ outcome' = [outcome EXCEPT ![i] = Rejected(e)]
          /\ promise' = [promise EXCEPT ![i] = Rejected(e)]
    /\ started' = Append(started, i)
    /\ UNCHANGED <<limiter, pc, timer>>

\* execute, queue full, without the return: the call is rejected and its
\* request queued all the same.
ExecuteRejectFallThrough(i) ==
    /\ stage' = [stage EXCEPT ![i] = "queued"]
    /\ promise' = [promise EXCEPT ![i] = Rejected(createQueueFullError(i))]
    /\ requestQueue' = Append(requestQueue, i)
    /\ UNCHANGED <<sinceLastRequest, concurrentRequests, processing, pc, timer,
                   outcome, started>>

\* execute, queue full: reject(this.createQueueFullError()); return
ExecuteReject(i) ==
    /\ stage' = [stage EXCEPT ![i] = "full"]
    /\ promise' = [promise EXCEPT ![i] = Rejected(createQueueFullError(i))]
    /\ UNCHANGED <<limiter, pc, timer, outcome, started>>

\* execute, room in the queue: this.requestQueue.push(...);
\* if (!this.processing) this.processQueue()
ExecuteEnqueue(i) ==
    /\ requestQueue' = Append(requestQueue, i)
    /\ stage' = [stage EXCEPT ![i] = "queued"]
    /\ IF StartsLoop
       THEN LoopHead(requestQueue', sinceLastRequest)
       ELSE UNCHANGED <<pc, timer, processing>>
    /\ UNCHANGED <<sinceLastRequest, concurrentRequests, outcome, promise, started>>

\* execute(fn): the call number calls + 1.
Submit(i) ==
    IF SkipRateLimiting THEN ExecuteDirect(i)
    ELSE IF QueueIsFull THEN ExecuteReject(i)
    ELSE ExecuteEnqueue(i)

\* A caller calls execute with a work item of its own.
Execute ==
    /\ calls < MaxCalls
    /\ calls' = calls + 1
    /\ Submit(calls + 1)
    /\ UNCHANGED <<config, outer>>

\* The timer of waitForRateLimit fires: waitForRateLimit returns.
RateTimerFires ==
    /\ pc = "rateSleep"
    /\ timer = 0
    /\ pc' = "rateDone"
    /\ UNCHANGED <<config, outer, limiter, timer, calls, stage, outcome, promise, started>>

\* processQueue resumes after await this.waitForRateLimit() and calls
\* waitForConcurrencySlot.
ResumeAfterRateLimit ==
    /\ pc = "rateDone"
    /\ SlotGate
    /\ UNCHANGED <<config, outer, limiter, calls, stage, outcome, promise, started>>

\* The timer of waitForConcurrencySlot fires: its loop tests again.
SlotTimerFires ==
    /\ pc = "slotSleep"
    /\ timer = 0
    /\ SlotGate
    /\ UNCHANGED <<config, outer, limiter, calls, stage, outcome, promise, started>>

\* processQueue resumes after await this.waitForConcurrencySlot(): shift,
\* count, stamp, executeRequest (which invokes the work item), loop.
Dispatch ==
    /\ pc = "slotDone"
    /\ IF Len(requestQueue) = 0
       THEN \* if (!request) continue
            /\ LoopHead(requestQueue, sinceLastRequest)
            /\ UNCHANGED <<sinceLastRequest, concurrentRequests, requestQueue,
                           stage, outcome, promise, started>>
       ELSE LET i == Shift(requestQueue).request IN
            /\ requestQueue' = Shift(requestQueue).rest
            /\ concurrentRequests' = concurrentRequests + 1
            /\ sinceLastRequest' = 0
            /\ started' = Append(started, i)
            /\ \/ \* request.execute() returned a pending promise
                  /\ stage' = [stage EXCEPT ![i] = "running"]
                  /\ UNCHANGED <<outcome, promise>>
               \/ \* request.execute() threw: caught, request.reject(...)
                  \E e \in Throws(i) :
                  /\ stage' = [stage EXCEPT ![i] = "delivered"]
                  /\ outcome' = [outcome EXCEPT ![i] = Rejected(e)]
                  /\ promise' = [promise EXCEPT ![i] = Settlement(Rejected(e), i)]
            /\ LoopHead(requestQueue', sinceLastRequest')
    /\ UNCHANGED <<config, outer, calls>>

\* The promise returned by the work item of a dispatched request settles with
\* o, and executeRequest resumes after await request.execute(): request.resolve
\* or request.reject.  (Nothing the limiter holds changes between the two, so
\* they are one step.)
SettleWork(i, o) ==
    /\ outcome' = [outcome EXCEPT ![i] = o]
    /\ promise' = [promise EXCEPT ![i] = Settlement(o, i)]
    /\ stage' = [stage EXCEPT ![i] = "delivered"]
    /\ UNCHANGED <<config, limiter, pc, timer, calls, started>>

\* The work item of a caller settles in any of the ways a work item can.
WorkSettles(i) ==
    /\ stage[i] = "running"
    /\ \E o \in Outcomes(i) : SettleWork(i, o)
    /\ UNCHANGED outer

\* The count after the callback given to .finally() ran for request i, which
\* it does however executeRequest settled.
OnFulfilmentOnly(i, count) ==
    IF promise[i].state = "fulfilled" THEN count - 1 ELSE count
Finally(i, count) == count - 1

\* .finally(() => { this.concurrentRequests-- })
Release(i) ==
    /\ stage[i] = "delivered"
    /\ concurrentRequests' = Finally(i, concurrentRequests)
    /\ stage' = [stage EXCEPT ![i] = "released"]
    /\ UNCHANGED <<config, outer, sinceLastRequest, requestQueue, processing, pc, timer,
                   calls, outcome, promise, started>>

\* Limiter disabled: the promise fn() returned settles, and the promise of
\* the async execute settles with it.
SettleDirect(i, o) ==
    /\ outcome' = [outcome EXCEPT ![i] = o]
    /\ promise' = [promise EXCEPT ![i] = o]
    /\ stage' = [stage EXCEPT ![i] = "directDone"]
    /\ UNCHANGED <<config, limiter, pc, timer, calls, started>>

\* Limiter disabled: the work item of a caller settles.
DirectSettles(i) ==
    /\ stage[i] = "direct"
    /\ \E o \in Outcomes(i) : SettleDirect(i, o)
    /\ UNCHANGED outer

\* clearQueue: the queue after n times this.requestQueue.shift()
AfterPeeks(q, n) == q
AfterShifts(q, n) == SubSeq(q, n + 1, Len(q))

\* clearQueue()
ClearQueue ==
    /\ Len(requestQueue) > 0
    /\ LET n == ClearCount(requestQueue)
           gone == {requestQueue[k] : k \in 1 .. n}
       IN  /\ requestQueue' = AfterShifts(requestQueue, n)
           /\ promise' = [i \in Requests |->
                 IF i \in gone THEN Rejected(NewError(<<"Queue cleared", 0>>, i))
                 ELSE promise[i]]
           /\ stage' = [i \in Requests |->
                 IF i \in gone THEN "cleared" ELSE stage[i]]
    /\ UNCHANGED <<config, outer, sinceLastRequest, concurrentRequests, processing, pc,
                   timer, calls, outcome, started>>

\* Date.now() advances by TickMs.
Tick ==
    /\ sinceLastRequest' = Min(sinceLastRequest + TickMs, intervalMs)
    /\ timer' = Max(timer - TickMs, 0)
    /\ UNCHANGED <<config, outer, concurrentRequests, requestQueue, processing, pc,
                   calls, stage, outcome, promise, started>>

Next ==
    \/ Execute
    \/ RateTimerFires
    \/ ResumeAfterRateLimit
    \/ SlotTimerFires
    \/ Dispatch
    \/ \E i \in Requests : WorkSettles(i)
    \/ \E i \in Requests : Release(i)
    \/ \E i \in Requests : DirectSettles(i)
    \/ ClearQueue
    \/ Tick

Spec == Init /\ [][Next]_vars

\* One step of the drain loop or of the clock.
LoopStep ==
    \/ Tick
    \/ RateTimerFires
    \/ ResumeAfterRateLimit
    \/ SlotTimerFires
    \/ Dispatch

\* One step of a dispatched request.
RequestStep == \E i \in Requests : WorkSettles(i) \/ Release(i)

\* Scheduling of the event loop: the clock advances, a due timer fires, a
\* resumed coroutine or a promise callback runs, and a work item that was
\* invoked settles.  Each of these steps, once possible, stays possible until
\* it is taken, so fairness to each of them gives fairness to LoopStep and to
\* RequestStep, which is all that is assumed here.  Callers (Execute,
\* ClearQueue) are under no obligation.
Fairness == WF_vars(LoopStep) /\ WF_vars(RequestStep)

LiveSpec == Init /\ [][Next]_vars /\ Fairness

\* ------------------------------------------- HttpClient.executeToolRequest

\* Parameter names of the tools generated for the runs checked, in the order
\* Object.entries and Object.keys give them.
KeyOrder == <<"a", "b">>
Keys == {KeyOrder[k] : k \in 1 .. Len(KeyOrder)}

\* for (const paramType of ['path', 'query', 'header'])
ParamTypes == <<"path", "query", "header">>

\* A JavaScript object with the entries of function f.
Obj(f) == [kind |-> "object", entries |-> f]
EmptyObject == Obj([k \in {} |-> Undefined])

\* The parameter objects of the runs checked: each name has no value or one of
\* two values.
ParameterObjects == [Keys -> {Undefined, Str(<<"x">>), Str(<<"y">>)}]

\* Entries of tool.http.parameters[paramType], in order, for a declaration
\* that says of each name where it is declared ("none": nowhere) and whether
\* it is required.
Entries(decl, paramType) ==
    LET keep == SelectSeq(KeyOrder, LAMBDA k : decl[k].where = paramType)
    IN  [n \in 1 .. Len(keep) |->
            [key |-> keep[n],
             paramDef |-> [name |-> <<"X", keep[n]>>, required |-> decl[keep[n]].required]]]

\* Declarations: each name nowhere, or in one place, required or not.
Declarations ==
    [Keys -> {[where |-> "none", required |-> FALSE]}
             \cup [where : {"path", "query", "header"}, required : BOOLEAN]]

\* tool.http.requestBody values: none; a schema without properties; an object
\* schema with declared properties; a schema with properties that is not of
\* type object.
NoRequestBody == [kind |-> "undefined"]
RequestBody(type, hasProperties, properties) ==
    [kind |-> "object",
     schema |-> [type |-> type, hasProperties |-> hasProperties,
                 properties |-> properties],
     contentType |-> Str(<<"application/json">>)]
RequestBodies ==
    {NoRequestBody, RequestBody("object", FALSE, <<>>),
     RequestBody("array", TRUE, <<"a">>)}
    \cup {RequestBody("object", TRUE, ps) :
             ps \in {<<>>, <<"a">>, <<"b">>, <<"a", "b">>}}

\* A tool: tool.http.path holds one placeholder for each path parameter.
Tool(decl, body) ==
    [http |->
        [method |-> IF body = NoRequestBody THEN "get" ELSE "post",
         path |-> [n \in 1 .. Len(Entries(decl, "path")) |->
                      [placeholder |-> TRUE, key |-> Entries(decl, "path")[n].key,
                       value |-> Undefined]],
         parameters |-> [t \in {"path", "query", "header"} |-> Entries(decl, t)],
         requestBody |-> body]]

Tools == {Tool(decl, body) : decl \in Declarations, body \in RequestBodies}

\* params[key]: undefined for a key the parameter object does not have.
Value(params, key) == IF key \in DOMAIN params THEN params[key] ELSE Undefined

\* The first entry of one parameter location that is required and has no value
\* (0: none): the loops throw at the first one they meet.
FirstMissingNever(entries, params) == 0
FirstMissing(entries, params) ==
    LET missing == {n \in 1 .. Len(entries) :
                       Value(params, entries[n].key) = Undefined /\ entries[n].paramDef.required}
    IN  IF missing = {} THEN 0 ELSE CHOOSE n \in missing : \A m \in missing : n <= m

\* new Error(`Required ${paramType} parameter '${key}' is missing`)
MissingParameterError(paramType, key) ==
    [type |-> "Error", name |-> "Error", ref |-> <<"client", 0>>,
     text |-> <<"Required parameter is missing", paramType, key>>, info |-> <<>>]

\* url.replace(`{${key}}`, encodeURIComponent(String(value))): the first
\* placeholder of that name.
Replace(url, key, value) ==
    LET at == {n \in 1 .. Len(url) : url[n].placeholder /\ url[n].key = key}
    IN  IF at = {} THEN url
        ELSE LET n == CHOOSE n \in at : \A m \in at : n <= m
             IN  [url EXCEPT ![n] = [placeholder |-> FALSE, key |-> key,
                                     value |-> Str(<<"encoded">> \o value.chars)]]

\* The path loop over entries 1 .. n.
RECURSIVE ReplaceAll(_, _, _, _)
ReplaceAll(url, entries, params, n) ==
    IF n = 0 THEN url
    ELSE LET before == ReplaceAll(url, entries, params, n - 1)
             value == Value(params, entries[n].key)
         IN  IF value # Undefined THEN Replace(before, entries[n].key, value)
             ELSE before

\* The entries of a location that have a value.
WithValue(entries, params) ==
    {n \in 1 .. Len(entries) : Value(params, entries[n].key) # Undefined}

\* queryParams[key] = value
QueryParams(entries, params) ==
    Obj([k \in {entries[n].key : n \in WithValue(entries, params)} |-> Value(params, k)])

\* headers[paramDef.name] = String(value); then Content-Type
Headers(entries, params, body) ==
    LET names == {entries[n].paramDef.name : n \in WithValue(entries, params)}
        sent == [h \in names |->
                    LET n == CHOOSE n \in WithValue(entries, params) :
                                 entries[n].paramDef.name = h
                    IN  Value(params, entries[n].key)]
        typed == body # NoRequestBody /\ body.contentType # Undefined
    IN  Obj([h \in names \cup (IF typed THEN {<<"Content-Type">>} ELSE {}) |->
                IF typed /\ h = <<"Content-Type">> THEN body.contentType ELSE sent[h]])

\* bodySchema.type === 'object' && bodySchema.properties
DeclaredPropertiesNever(schema) == FALSE
DeclaredProperties(schema) == schema.type = "object" /\ schema.hasProperties

\* The request body: the declared properties that have a value, or else the
\* parameter object without the names of the path, query and header parameters.
Body(tool, params) ==
    LET body == tool.http.requestBody IN
    IF body = NoRequestBody THEN Undefined
    ELSE IF DeclaredProperties(body.schema)
    THEN Obj([prop \in {p \in Range(body.schema.properties) \cap DOMAIN params :
                            Value(params, p) # Undefined}
                 |-> Value(params, prop)])
    ELSE LET deleted == UNION {{tool.http.parameters[t][n].key :
                                    n \in 1 .. Len(tool.http.parameters[t])} :
                               t \in Range(ParamTypes)}
         IN  Obj([k \in {p \in DOMAIN params : Value(params, p) # Undefined} \ deleted
                    |-> Value(params, k)])

\* Object.keys(o).length > 0 ? o : undefined
NonEmpty(o) == IF DOMAIN o.entries = {} THEN Undefined ELSE o

\* executeToolRequest up to the call of this.rateLimiter.execute: the error
\* thrown, or the config of the request.
Assemble(tool, params) ==
    LET entries(t) == tool.http.parameters[t]
        missing(t) == FirstMissing(entries(t), params)
        thrown(t) == [kind |-> "thrown",
                      error |-> MissingParameterError(t, entries(t)[missing(t)].key)]
    IN  IF missing("path") # 0 THEN thrown("path")
        ELSE IF missing("query") # 0 THEN thrown("query")
        ELSE IF missing("header") # 0 THEN thrown("header")
        ELSE [kind |-> "config",
              config |->
                 [method |-> tool.http.method,
                  url |-> ReplaceAll(tool.http.path, entries("path"), params,
                                     Len(entries("path"))),
                  params |-> NonEmpty(QueryParams(entries("query"), params)),
                  data |-> Body(tool, params),
                  headers |-> NonEmpty(Headers(entries("header"), params,
                                               tool.http.requestBody))]]

\* The work item executeToolRequest hands to the limiter is an async function:
\* invoked, it returns a pending promise; what goes wrong in it rejects that
\* promise, nothing is thrown at the limiter.
InvokedPending ==
    \A i \in Requests :
        stage[i] \in {"none", "queued"} => stage'[i] \notin {"delivered", "directDone"}

\* executeToolRequest(tool, params), up to its return: assembly of the request,
\* then this.rateLimiter.execute(work item), which is call number calls + 1 on
\* the limiter.  An assembly error is thrown before the limiter is reached.
ExecuteToolRequest(tool, params) ==
    LET assembled == Assemble(tool, params) IN
    /\ IF assembled.kind = "thrown"
       THEN /\ client' = [client EXCEPT !.lastCall =
                            [kind |-> "call", tool |-> tool, params |-> params,
                             assembled |-> assembled, request |-> 0]]
            /\ UNCHANGED <<limiter, pc, timer, calls, stage, outcome, promise, started>>
       ELSE /\ calls < MaxCalls
            /\ calls' = calls + 1
            /\ client' = [client EXCEPT !.lastCall =
                            [kind |-> "call", tool |-> tool, params |-> params,
                             assembled |-> assembled, request |-> calls + 1]]
            /\ Submit(calls + 1)
            /\ InvokedPending
    /\ UNCHANGED config

\* A caller calls executeToolRequest with one of the given tools.
ClientCall(tools) ==
    /\ lastCall = NoCall
    /\ \E tool \in tools, params \in ParameterObjects : ExecuteToolRequest(tool, params)
    /\ UNCHANGED <<construction, converter, server>>

\* executeToolRequest returned its promise and the caller goes on.  The call
\* and what the caller does with the promise are one synchronous run: nothing
\* else happens before Return.
Return ==
    /\ lastCall # NoCall
    /\ client' = [client EXCEPT !.lastCall = NoCall]
    /\ UNCHANGED <<config, limiter, pc, timer, calls, stage, outcome, promise,
                   started, construction, converter, server>>

\* processQueue dispatches a request of executeToolRequest.
HttpDispatch == lastCall = NoCall /\ Dispatch /\ InvokedPending

\* validateStatus: (status) => status < 500
validateStatus(status) == status < 500

\* Response statuses of the runs checked: both sides of 400 and of 500.
StatusCodes == {200, 399, 400, 499, 500}

\* response.data of the response to request i.
ResponseData(i) ==
    [type |-> "value", name |-> "", ref |-> <<"response", i>>,
     text |-> <<"data", i>>, info |-> <<>>]

\* What the upstream and the transport can give request i: a response, or no
\* response (connection refused, timeout), or an error raised inside
\* axios.request that is not an AxiosError.
Responses(i) ==
    [kind : {"response"}, status : StatusCodes, data : {ResponseData(i)}]
    \cup {[kind |-> "failure", status |-> 0, data |-> NoValue],
          [kind |-> "raised", status |-> 0, data |-> NoValue]}

\* The one response of an upstream that always answers 200.
OkResponses(i) == {[kind |-> "response", status |-> 200, data |-> ResponseData(i)]}

\* How this.axios.request(config) settles.
AxiosSettlement(r, i) ==
    IF r.kind = "response" /\ validateStatus(r.status)
    THEN Fulfilled([type |-> "value", name |-> "response", ref |-> <<"axios", i>>,
                    text |-> <<"response", r.status>>, info |-> <<r.data>>])
    ELSE IF r.kind = "raised"
    THEN Rejected([type |-> "Error", name |-> "TypeError", ref |-> <<"axios", i>>,
                   text |-> <<"raised", 0>>, info |-> <<>>])
    ELSE Rejected([type |-> "Error", name |-> "AxiosError", ref |-> <<"axios", i>>,
                   text |-> <<"Request failed", r.status>>, info |-> <<>>])

\* axios.isAxiosError(error)
isAxiosError(error) == error.name = "AxiosError"

\* response.status >= 400
StatusFailsOnlyAbove(status) == status > 400
StatusFails(status) == status >= 400

\* The work item: how its promise settles, given what axios.request gave.
WorkItem(r, i) ==
    LET settled == AxiosSettlement(r, i) IN
    IF settled.state = "fulfilled"
    THEN IF StatusFails(r.status)
         THEN \* thrown in the try block, caught, not an AxiosError: thrown again
              Rejected([type |-> "Error", name |-> "Error", ref |-> <<"client", i>>,
                        text |-> <<"API request failed with status", r.status>>,
                        info |-> <<>>])
         ELSE Fulfilled(r.data)
    ELSE IF isAxiosError(settled.value)
    THEN Rejected([type |-> "Error", name |-> "Error", ref |-> <<"client", i>>,
                   text |-> <<"HTTP request failed", r.status>>, info |-> <<>>])
    ELSE Rejected(settled.value)

\* this.axios.request(config) of request i settles with one of the given
\* responses and the work item settles with it.
HttpSettles(i, responses) ==
    /\ lastCall = NoCall
    /\ stage[i] \in {"running", "direct"}
    /\ \E r \in responses :
          /\ client' = [client EXCEPT !.response[i] = r]
          /\ \/ stage[i] = "running" /\ SettleWork(i, WorkItem(r, i))
             \/ stage[i] = "direct" /\ SettleDirect(i, WorkItem(r, i))
    /\ UNCHANGED <<construction, converter, server>>

\* The limiter an HttpClient is constructed with in the runs checked.
ClientInit ==
    /\ LimiterInit
    /\ intervalMs = 25 /\ maxConcurrent = 1 /\ maxQueueSize = 1
    /\ construction = NoConstruction
    /\ converter = NoConverter
    /\ client = NewClient
    /\ server = NoServer

\* Request assembly: every tool, an upstream that answers 200.
AssemblyNext ==
    \/ ClientCall(Tools)
    \/ Return
    \/ lastCall = NoCall /\ RateTimerFires
    \/ lastCall = NoCall /\ ResumeAfterRateLimit
    \/ lastCall = NoCall /\ SlotTimerFires
    \/ HttpDispatch
    \/ \E i \in Requests : HttpSettles(i, OkResponses(i))
    \/ \E i \in Requests : lastCall = NoCall /\ Release(i)
    \/ lastCall = NoCall /\ Tick

AssemblySpec == ClientInit /\ [][AssemblyNext]_vars

\* Tools of the runs that look at the responses: one without parameters, one
\* with a path parameter and a body.
SampleTools ==
    {Tool([k \in Keys |-> [where |-> "none", required |-> FALSE]], NoRequestBody),
     Tool([k \in Keys |-> [where |-> IF k = "a" THEN "path" ELSE "none",
                           required |-> k = "a"]],
          RequestBody("object", TRUE, <<"b">>))}

\* The client against an upstream that answers anything.
ClientNext ==
    \/ ClientCall(SampleTools)
    \/ Return
    \/ lastCall = NoCall /\ RateTimerFires
    \/ lastCall = NoCall /\ ResumeAfterRateLimit
    \/ lastCall = NoCall /\ SlotTimerFires
    \/ HttpDispatch
    \/ \E i \in Requests : HttpSettles(i, Responses(i))
    \/ \E i \in Requests : lastCall = NoCall /\ Release(i)
    \/ lastCall = NoCall /\ Tick

ClientSpec == ClientInit /\ [][ClientNext]_vars

\* -------------------------------------------------------- MarqetaMcpServer

\* JSON schemas of the tools: type ("none": no type), properties in order (for
\* an object schema that has them), required names, enum (<<>>: none), minimum.
Schema(type, hasProperties, properties, required, enum, minimum) ==
    [type |-> type, hasProperties |-> hasProperties, properties |-> properties,
     required |-> required, enum |-> enum, minimum |-> minimum]
StringSchema == Schema("string", FALSE, <<>>, {}, <<>>, Undefined)
EnumSchema(values) == Schema("string", FALSE, <<>>, {}, values, Undefined)
NumberSchema(minimum) == Schema("number", FALSE, <<>>, {}, <<>>, minimum)
ObjectSchema(properties, required) ==
    Schema("object", TRUE, properties, required, <<>>, Undefined)
\* { type: 'object' }
AnyObjectSchema == Schema("object", FALSE, <<>>, {}, <<>>, Undefined)

\* o[key] of a JavaScript object
Get(o, key) == IF key \in DOMAIN o.entries THEN o.entries[key] ELSE Undefined

\* jsonSchemaToZod, cases string (with enum) and number (with minimum): does
\* the validator accept value v?
AcceptsLeaf(schema, v) ==
    IF schema.type = "string"
    THEN /\ v.kind = "string"
         /\ schema.enum # <<>> => v \in Range(schema.enum)
    ELSE IF schema.type = "number"
    THEN /\ v.kind = "number"
         /\ ~v.nan
         /\ schema.minimum # Undefined => AtLeast(v, schema.minimum)
    ELSE IF schema.type = "object" THEN v.kind = "object"
    ELSE TRUE

\* jsonSchemaToZod, case object with properties: a property not listed in
\* schema.required is optional.
IsOptional(schema, key) == key \notin schema.required

\* validator.parse(v): the paths of the issues of the ZodError, in order
\* (<<>>: v passes).  The root has the path <<>>.
Issues(schema, v) ==
    IF schema.type = "object" /\ schema.hasProperties
    THEN IF v.kind # "object" THEN << <<>> >>
         ELSE LET bad(n) ==
                      LET key == schema.properties[n].key
                          value == Get(v, key)
                      IN  IF value = Undefined /\ IsOptional(schema, key) THEN FALSE
                          ELSE ~AcceptsLeaf(schema.properties[n].schema, value)
                  at == SelectSeq([n \in 1 .. Len(schema.properties) |-> n], bad)
              IN  [n \in 1 .. Len(at) |-> <<schema.properties[at[n]].key>>]
    ELSE IF AcceptsLeaf(schema, v) THEN <<>> ELSE << <<>> >>

\* validator.parse(v) when v passes: z.object keeps the declared keys only.
ParsedRaw(schema, v) == v
Parsed(schema, v) ==
    IF schema.type = "object" /\ schema.hasProperties /\ v.kind = "object"
    THEN Obj([k \in {schema.properties[n].key : n \in 1 .. Len(schema.properties)}
                     \cap DOMAIN v.entries |-> v.entries[k]])
    ELSE v

\* A tool of tools.json.
CatalogueTool(name, service, scope, method, path, body, inputSchema) ==
    [name |-> name, service |-> service, scope |-> scope,
     http |-> [method |-> method,
               path |-> [n \in 1 .. Len(path) |->
                            [placeholder |-> TRUE, key |-> path[n], value |-> Undefined]],
               parameters |->
                   [t \in {"path", "query", "header"} |->
                       IF t = "path"
                       THEN [n \in 1 .. Len(path) |->
                                [key |-> path[n],
                                 paramDef |-> [name |-> path[n], required |-> TRUE]]]
                       ELSE <<>>],
               requestBody |-> body],
     inputSchema |-> inputSchema,
     outputSchema |-> AnyObjectSchema]

\* tools.json of the runs checked: two tools of the integration tests, one
\* read and one write, and a third like cards_getCard of those tests except
\* that its input schema has no `required`, so that arguments without the
\* path parameter pass the input validator and reach executeToolRequest.
users_getUser ==
    CatalogueTool("users_getUser", <<"users">>, "read", "get", <<"id">>, NoRequestBody,
        ObjectSchema(<<[key |-> "id", schema |-> StringSchema]>>, {"id"}))
payments_processPayment ==
    CatalogueTool("payments_processPayment", <<"payments">>, "write", "post", <<>>,
        RequestBody("object", TRUE, <<"amount", "currency">>),
        ObjectSchema(<<[key |-> "amount", schema |-> NumberSchema(Num(0))],
                       [key |-> "currency",
                        schema |-> EnumSchema(<<Str(<<"USD">>), Str(<<"EUR">>),
                                                Str(<<"GBP">>)>>)]>>,
                     {"amount", "currency"}))
cards_getCardOptionalId ==
    CatalogueTool("cards_getCard", <<"cards">>, "read", "get", <<"id">>, NoRequestBody,
        ObjectSchema(<<[key |-> "id", schema |-> StringSchema]>>, {}))
MockTools == <<users_getUser, payments_processPayment, cards_getCardOptionalId>>

\* config.service values of the runs checked, as lists of the pieces a string
\* is made of: service names, "," and " ".
ServiceChoices == {Undefined, Str(<<"users", ",", " ", "payments">>)}

\* config.scope values of the runs checked.
ScopeChoices == {"all", "read"}

\* Server configurations of the runs checked: no filter, read only, and
\* two services.
ServerConfigs ==
    {c \in [scope : ScopeChoices, service : ServiceChoices] :
        c.scope = "read" => c.service = Undefined}

\* s.trim()
RECURSIVE TrimEnd(_)
TrimEnd(s) ==
    IF s # <<>> /\ s[Len(s)] = " " THEN TrimEnd(SubSeq(s, 1, Len(s) - 1)) ELSE s
Trim(s) == TrimEnd(TrimStart(s))

\* s.split(',')
RECURSIVE Split(_)
Split(s) ==
    LET commas == {n \in 1 .. Len(s) : s[n] = ","} IN
    IF commas = {} THEN <<s>>
    ELSE LET n == CHOOSE n \in commas : \A m \in commas : n <= m
         IN  <<SubSeq(s, 1, n - 1)>> \o Split(SubSeq(s, n + 1, Len(s)))

\* filterTools: the scope filter applies when config.scope === 'read'
ScopeFilterNever(scope) == FALSE
ScopeFilter(scope) == scope = "read"

\* filterTools: the service filter applies when config.service is truthy
ServiceFilterNever(service) == FALSE
ServiceFilter(service) == service # Undefined /\ service.chars # <<>>

\* filterTools
filterTools(tools, scope, service) ==
    LET byScope == IF ScopeFilter(scope)
                   THEN SelectSeq(tools, LAMBDA t : t.scope = "read")
                   ELSE tools
    IN  IF ServiceFilter(service)
        THEN LET parts == Split(service.chars)
                 services == {Trim(parts[n]) : n \in 1 .. Len(parts)}
             IN  SelectSeq(byScope, LAMBDA t : t.service \in services)
        ELSE byScope

\* path.join('.') of an issue path: the keys with "." between them.
RECURSIVE Join(_)
Join(path) ==
    IF path = <<>> THEN <<>>
    ELSE IF Len(path) = 1 THEN path
    ELSE <<Head(path), ".">> \o Join(Tail(path))

\* { content: [{ type: 'text', text }] }
TextReply(prefix, body) ==
    [content |-> <<[type |-> "text", text |-> [prefix |-> prefix, body |-> body]]>>]

\* JSON.stringify(value, null, 2)
JsonStringify(v) == [kind |-> "json", indent |-> 2, value |-> v]

\* `Input validation error: ${errors.map(e => `${e.path.join('.')}: ${e.message}`).join(', ')}`
ValidationReply(issues) ==
    TextReply("Input validation error: ",
              [kind |-> "issues",
               value |-> [n \in 1 .. Len(issues) |-> Join(issues[n])]])

\* `Error: ${error instanceof Error ? error.message : String(error)}`
ErrorReplyBare(error) == TextReply("", [kind |-> "message", value |-> error.text])
ErrorReply(error) ==
    TextReply("Error: ", [kind |-> "message", value |-> error.text])

\* The handler: input validation failed?
InputRejectedNever(issues) == FALSE
InputRejected(issues) == issues # <<>>

\* The handler: validatedOutput, given the body of the response.
ValidatedOutputOrNothing(schema, body) ==
    IF Issues(schema, body) = <<>> THEN Parsed(schema, body) ELSE Undefined
ValidatedOutput(schema, body) ==
    IF Issues(schema, body) = <<>> THEN Parsed(schema, body) ELSE body

\* new Error(`Tool not found: ${name}`)
ToolNotFound(name) ==
    [type |-> "Error", name |-> "Error", ref |-> <<"server", 0>>,
     text |-> <<"Tool not found", name>>, info |-> <<>>]

\* The record of a tools/call request.
Invocation(name, arguments, result, error, text, request) ==
    [kind |-> "call", name |-> name, arguments |-> arguments, result |-> result,
     error |-> error, reply |-> text, request |-> request]

\* Arguments of the runs checked.
NoArguments == Undefined
GoodId == Obj([k \in {"id"} |-> Str(<<"user-123">>)])
ExtraKey == Obj([k \in {"id", "extra"} |-> Str(<<"user-456">>)])
GoodPayment ==
    Obj([k \in {"amount", "currency"} |-> IF k = "amount" THEN Num(100) ELSE Str(<<"USD">>)])
BadPayment ==
    Obj([k \in {"amount", "currency"} |-> IF k = "amount" THEN Num(-1) ELSE Str(<<"JPY">>)])
NotAnObject == Str(<<"text">>)

\* The tools/call requests of the runs checked: for each tool of tools.json
\* arguments it accepts and arguments it refuses, and a name no tool has.
ToolCalls ==
    {<<"unknown_tool", GoodId>>,
     <<"users_getUser", GoodId>>, <<"users_getUser", NoArguments>>,
     <<"users_getUser", NotAnObject>>, <<"users_getUser", ExtraKey>>,
     <<"payments_processPayment", GoodPayment>>,
     <<"payments_processPayment", BadPayment>>,
     <<"cards_getCard", GoodId>>, <<"cards_getCard", NoArguments>>}

\* tools.json as read by loadTools: the list of tools it parses to (ok), or
\* nothing when the file is missing or is not JSON.  The server runs read a
\* file that is there; CatalogueFiles below has one that is not.
ToolsFiles == {[ok |-> TRUE, tools |-> MockTools]}

\* this.precompiledTools = JSON.parse(toolsContent): what the field holds
\* after the assignment, given what it held and what was read.
AssignedAppending(held, read) == held \o read
Assigned(held, read) == read

\* loadTools, readFile or JSON.parse threw: what a field holds after the
\* catch block, which logs and throws the error on.
AfterCatchEmpty(held) == <<>>
AfterCatch(held) == held

\* loadTools with one of the given files: readFile and JSON.parse, then
\* filterTools.  When either throws, the error is thrown on and nothing is
\* assigned.  load tells how the promise of the latest loadTools settled.
LoadToolsFrom(files) ==
    /\ invocation = NoInvocation
    /\ \E file \in files :
          IF file.ok
          THEN LET tools == Assigned(precompiledTools, file.tools) IN
               server' = [server EXCEPT
                              !.load = "resolved",
                              !.precompiledTools = tools,
                              !.filteredTools = filterTools(tools,
                                                            serverConfig.scope,
                                                            serverConfig.service)]
          ELSE server' = [server EXCEPT
                              !.load = "rejected",
                              !.precompiledTools = AfterCatch(precompiledTools),
                              !.filteredTools = AfterCatch(filteredTools)]
    /\ UNCHANGED <<config, limiter, pc, timer, calls, stage, outcome, promise, started,
                   construction, converter, client>>

LoadTools == LoadToolsFrom(ToolsFiles)

\* The tools/call request handler with the handler of the tool, up to its
\* return or first suspension: find the tool, validate the arguments, call
\* executeToolRequest.  A parameter error thrown by executeToolRequest rejects
\* the promise the handler awaits; the handler then runs on to its catch block
\* with nothing of the limiter or the server in between, so this is one step.
ToolsCall(name, arguments) ==
    /\ invocation = NoInvocation
    /\ LET found == SelectSeq(filteredTools, LAMBDA t : t.name = name) IN
       IF found = <<>>
       THEN /\ server' = [server EXCEPT !.invocation =
                            Invocation(name, arguments, "thrown", ToolNotFound(name),
                                       NoReply, 0)]
            /\ UNCHANGED <<config, limiter, pc, timer, calls, stage, outcome, promise,
                           started, client>>
       ELSE LET tool == Head(found)
                \* params.arguments || {}
                input == IF arguments = Undefined THEN EmptyObject ELSE arguments
                issues == Issues(tool.inputSchema, input)
            IN  IF InputRejected(issues)
                THEN /\ server' = [server EXCEPT !.invocation =
                                     Invocation(name, arguments, "reply", NoValue,
                                                ValidationReply(issues), 0)]
                     /\ UNCHANGED <<config, limiter, pc, timer, calls, stage, outcome,
                                    promise, started, client>>
                ELSE /\ calls < MaxHandled
                     /\ ExecuteToolRequest(tool, Parsed(tool.inputSchema, input).entries)
                     /\ IF lastCall'.assembled.kind = "thrown"
                        THEN server' = [server EXCEPT !.invocation =
                                   Invocation(name, arguments, "reply", NoValue,
                                              ErrorReply(lastCall'.assembled.error), 0)]
                        ELSE server' = [server EXCEPT
                                   !.invocation = Invocation(name, arguments, "pending",
                                                             NoValue, NoReply, calls'),
                                   !.handler[calls'] = tool]
    /\ UNCHANGED <<construction, converter>>

\* The tools/call request handler returned its promise to the protocol layer.
ServerReturn ==
    /\ invocation # NoInvocation
    /\ server' = [server EXCEPT !.invocation = NoInvocation]
    /\ client' = [client EXCEPT !.lastCall = NoCall]
    /\ UNCHANGED <<config, limiter, pc, timer, calls, stage, outcome, promise, started,
                   construction, converter>>

\* What the handler does to the limiter once its request is settled.
HandlerDoneRetry(i) ==
    /\ started' = IF promise[i].state = "rejected" /\ i \in Range(started)
                  THEN Append(started, i) ELSE started
    /\ UNCHANGED <<config, limiter, pc, timer, calls, stage, outcome, promise>>
HandlerDone(i) ==
    UNCHANGED <<config, limiter, pc, timer, calls, stage, outcome, promise, started>>

\* The handler resumes after await this.httpClient.executeToolRequest(...):
\* with the response it validates the output and formats it, with an error it
\* goes to its catch block.
HandlerResumes(i) ==
    /\ invocation = NoInvocation
    /\ handler[i] # NoHandler
    /\ reply[i] = NoReply
    /\ promise[i].state # "pending"
    /\ server' = [server EXCEPT !.reply[i] =
          IF promise[i].state = "fulfilled"
          THEN TextReply("", JsonStringify(
                   ValidatedOutput(handler[i].outputSchema, promise[i].value.info[1])))
          ELSE ErrorReply(promise[i].value)]
    /\ HandlerDone(i)
    /\ UNCHANGED <<construction, converter, client>>

\* Bodies of the responses of the runs checked: an object, and a string, which
\* no output schema of tools.json accepts.
ResponseBodies ==
    {Obj([k \in {"id", "name"} |-> Str(<<"user-123">>)]),
     Str(<<"invalid string response">>)}

\* response.data of request i with the given body.
Payload(i, body) == [ResponseData(i) EXCEPT !.info = <<body>>]

\* What the upstream and the transport give request i in the runs checked.
ServerResponses(i) ==
    [kind : {"response"}, status : {200},
     data : {Payload(i, b) : b \in ResponseBodies}]
    \cup [kind : {"response"}, status : {500},
          data : {Payload(i, Str(<<"error">>))}]
    \cup {[kind |-> "failure", status |-> 0, data |-> NoValue]}

\* The server is constructed with a configuration; its client holds a limiter.
ServerInit ==
    /\ LimiterInit
    /\ intervalMs = 25 /\ maxConcurrent = 1 /\ maxQueueSize = 1
    /\ construction = NoConstruction
    /\ converter = NoConverter
    /\ client = NewClient
    /\ server \in {NewServer(cfg) : cfg \in ServerConfigs}

ServerNext ==
    \/ LoadTools
    \/ \E call \in ToolCalls : ToolsCall(call[1], call[2])
    \/ ServerReturn
    \/ \E i \in Requests : HandlerResumes(i)
    \/ invocation = NoInvocation /\ RateTimerFires
    \/ invocation = NoInvocation /\ ResumeAfterRateLimit
    \/ invocation = NoInvocation /\ SlotTimerFires
    \/ invocation = NoInvocation /\ HttpDispatch
    \/ \E i \in Requests : invocation = NoInvocation /\ HttpSettles(i, ServerResponses(i))
    \/ \E i \in Requests : invocation = NoInvocation /\ Release(i)
    \/ invocation = NoInvocation /\ Tick

ServerSpec == ServerInit /\ [][ServerNext]_vars

\* ------------------------------------------------- loadTools, filterTools

\* mockTools[1] of the integration tests: a write tool of the users service.
users_createUser ==
    CatalogueTool("users_createUser", <<"users">>, "write", "post", <<>>,
        RequestBody("object", TRUE, <<"name">>),
        ObjectSchema(<<[key |-> "name", schema |-> StringSchema]>>, {"name"}))

\* tools.json over time: the tools of the integration tests, their first two
\* (mockTools.slice(0, 2)), three in another order, none, and a file that
\* cannot be read.
CatalogueFiles ==
    {[ok |-> TRUE, tools |-> MockTools],
     [ok |-> TRUE, tools |-> <<users_getUser, users_createUser>>],
     [ok |-> TRUE, tools |-> <<payments_processPayment, users_createUser,
                               users_getUser>>],
     [ok |-> TRUE, tools |-> <<>>],
     [ok |-> FALSE, tools |-> <<>>]}

\* config.service and config.scope of the runs checked: no list, the empty
\* string, one name, two names, names with blanks around them, a service no
\* tool has; every scope.
FilterConfigs ==
    [scope : {"all", "read", "write"},
     service : {Undefined, Str(<<>>), Str(<<"users">>),
                Str(<<"users", ",", "payments">>),
                Str(<<" ", "cards", " ", ",", " ", "users">>),
                Str(<<"accounts">>)}]

\* tools/call requests of the runs checked.
LoadCalls ==
    {<<"users_getUser", GoodId>>, <<"users_createUser", NoArguments>>,
     <<"payments_processPayment", BadPayment>>, <<"cards_getCard", GoodId>>}

LoadInit ==
    /\ LimiterInit
    /\ enabled /\ intervalMs = 25 /\ maxConcurrent = 1 /\ maxQueueSize = 1
    /\ construction = NoConstruction
    /\ converter = NoConverter
    /\ client = NewClient
    /\ server \in {NewServer(cfg) : cfg \in FilterConfigs}

LoadNext ==
    \/ LoadToolsFrom(CatalogueFiles)
    \/ \E call \in LoadCalls : ToolsCall(call[1], call[2])
    \/ ServerReturn

LoadSpec == LoadInit /\ [][LoadNext]_vars

\* ---------------------------------------------------- constructor, alone

\* new RateLimiter(cfg), once.  The fields of the limiter modelled above stay
\* as they are: this specification looks at the constructor only.
Construct(cfg) ==
    /\ instance = NotBuilt
    /\ construction' = [construction EXCEPT !.instance = constructor(cfg)]
    /\ UNCHANGED <<config, limiter, pc, timer, calls, stage, outcome, promise,
                   started, converter, client, server>>

CtorInit ==
    /\ LimiterInit
    /\ enabled /\ intervalMs = 0 /\ maxConcurrent = 1 /\ maxQueueSize = 0
    /\ construction \in [env : [EnvKeys -> EnvValues], instance : {NotBuilt}]
    /\ env["MARQETA_RATE_LIMIT_ENABLED"] \in EnabledEnvValues
    /\ converter = NoConverter
    /\ client = NoClient
    /\ server = NoServer

CtorNext == \E cfg \in Configs : Construct(cfg)

CtorSpec == CtorInit /\ [][CtorNext]_vars

\* ------------------------------------------ SchemaConverter.jsonSchemaToZod

\* JSON values beside strings, numbers, booleans and objects.
Null == [kind |-> "null"]
Arr(items) == [kind |-> "array", items |-> items]

\* A canonical schema with no keyword set.  has* tells whether the keyword is
\* there (an empty list is there); bounds are numbers or undefined.
Bare ==
    [type |-> "none", circular |-> FALSE,
     hasOneOf |-> FALSE, oneOf |-> <<>>, hasAnyOf |-> FALSE, anyOf |-> <<>>,
     hasAllOf |-> FALSE, allOf |-> <<>>,
     minLength |-> Undefined, maxLength |-> Undefined, pattern |-> "",
     format |-> "", enum |-> <<>>, minimum |-> Undefined, maximum |-> Undefined,
     hasItems |-> FALSE, items |-> <<>>, minItems |-> Undefined,
     maxItems |-> Undefined,
     hasProperties |-> FALSE, properties |-> <<>>,
     hasRequired |-> FALSE, required |-> {}]

\* if (schema.minLength), if (schema.maxLength): a number that is not 0
Truthy(n) == n # Undefined /\ n.n # 0

\* new RegExp(schema.pattern).test(s), for the patterns of the runs checked
Matches(pattern, chars) ==
    IF pattern = "^a" THEN chars # <<>> /\ Head(chars) = "a"
    ELSE IF pattern = "b$" THEN chars # <<>> /\ chars[Len(chars)] = "b"
    ELSE TRUE

\* Strings of the runs checked that zod's format checks accept.
AnEmail == <<"a", "@", "b", ".", "c", "o">>
ADate == <<"2", "0", "2", "3", "-", "0", "1", "-", "0", "1">>
ADateTime == ADate \o <<"T", "0", "0", ":", "0", "0", ":", "0", "0", "Z">>
AUuid ==
    <<"5", "5", "0", "e", "8", "4", "0", "0", "-", "e", "2", "9", "b", "-",
      "4", "1", "d", "4", "-", "a", "7", "1", "6", "-",
      "4", "4", "6", "6", "5", "5", "4", "4", "0", "0", "0", "0">>

\* z.string().email() / .uuid() / .datetime() / .date() on the strings of the
\* runs checked.
FormatCheck(format, chars) ==
    IF format = "email" THEN chars = AnEmail
    ELSE IF format = "uuid" THEN chars = AUuid
    ELSE IF format = "date-time" THEN chars = ADateTime
    ELSE IF format = "date" THEN chars = ADate
    ELSE TRUE

\* The formats jsonSchemaToZod knows.
Formats == {"email", "uuid", "date-time", "date"}

\* jsonSchemaToZod, case 'string', without enum: the checks of the validator
\* returned.  A known format replaces the validator built so far by
\* z.string().<format>().
StringChecks(schema, chars) ==
    IF schema.format \in Formats THEN FormatCheck(schema.format, chars)
    ELSE /\ Truthy(schema.minLength) => Len(chars) >= schema.minLength.n
         /\ Truthy(schema.maxLength) => Len(chars) <= schema.maxLength.n
         /\ schema.pattern # "" => Matches(schema.pattern, chars)

\* zodSchemas.slice(n)
SliceNone(list, n) == <<>>
Slice(list, n) == SubSeq(list, n + 1, Len(list))

\* The loop over Object.entries(schema.properties): is the validator of the
\* declared key left without .optional()?
ShapeRequires(schema, key) == schema.hasRequired /\ key \in schema.required

\* z.never()
NeverRefuses(v) == TRUE
Never(v) == FALSE

\* z.lazy(() => z.object({}).passthrough())
Passthrough(v) == v.kind = "object"

\* jsonSchemaToZod: the composite keyword it goes by, if any: if (schema?.oneOf)
\* ... if (schema?.anyOf) ... if (schema?.allOf) ..., before the type is read.
CompositeAllOfFirst(schema) ==
    IF schema.hasAllOf THEN "allOf"
    ELSE IF schema.hasOneOf THEN "oneOf"
    ELSE IF schema.hasAnyOf THEN "anyOf"
    ELSE "none"
Composite(schema) ==
    IF schema.hasOneOf THEN "oneOf"
    ELSE IF schema.hasAnyOf THEN "anyOf"
    ELSE IF schema.hasAllOf THEN "allOf"
    ELSE "none"

\* Does the validator jsonSchemaToZod(schema) accept v?  (v may be undefined:
\* the value of a key the object does not have.)
RECURSIVE Accepts(_, _)
RECURSIVE UnionAccepts(_, _)
RECURSIVE ReduceAccepts(_, _, _)

\* z.union(zodSchemas)
UnionAccepts(members, v) ==
    IF members = <<>> THEN FALSE
    ELSE Accepts(Head(members), v) \/ UnionAccepts(Tail(members), v)

\* list.reduce((acc, curr) => z.intersection(acc, curr), first): acc tells
\* whether the intersection built so far accepts v.  Both sides parse the same
\* v and differ at most in the keys z.object stripped, so their results merge.
ReduceAccepts(list, acc, v) ==
    IF list = <<>> THEN acc
    ELSE ReduceAccepts(Tail(list), acc /\ Accepts(Head(list), v), v)

Accepts(schema, v) ==
    IF schema.circular THEN Passthrough(v)
    ELSE IF Composite(schema) \in {"oneOf", "anyOf"}
    THEN \* handleOneOf, handleAnyOf
         LET members == IF Composite(schema) = "oneOf" THEN schema.oneOf
                        ELSE schema.anyOf
         IN
         IF Len(members) = 0 THEN Never(v)
         ELSE IF Len(members) = 1 THEN Accepts(members[1], v)
         ELSE UnionAccepts(members, v)
    ELSE IF Composite(schema) = "allOf"
    THEN \* handleAllOf
         IF Len(schema.allOf) = 0 THEN TRUE
         ELSE IF Len(schema.allOf) = 1 THEN Accepts(schema.allOf[1], v)
         ELSE /\ Accepts(schema.allOf[1], v)
              /\ ReduceAccepts(Slice(schema.allOf, 1), Accepts(schema.allOf[1], v), v)
    ELSE IF schema.type = "string"
    THEN /\ v.kind = "string"
         /\ IF schema.enum # <<>> THEN v \in Range(schema.enum)
            ELSE StringChecks(schema, v.chars)
    ELSE IF schema.type \in {"number", "integer"}
    THEN /\ v.kind = "number"
         /\ ~v.nan
         /\ schema.minimum # Undefined => AtLeast(v, schema.minimum)
         /\ schema.maximum # Undefined => AtLeast(schema.maximum, v)
    ELSE IF schema.type = "boolean" THEN v.kind = "boolean"
    ELSE IF schema.type = "array"
    THEN /\ v.kind = "array"
         /\ schema.hasItems => \A n \in 1 .. Len(v.items) :
                                  Accepts(schema.items[1], v.items[n])
         /\ schema.minItems # Undefined => Len(v.items) >= schema.minItems.n
         /\ schema.maxItems # Undefined => Len(v.items) <= schema.maxItems.n
    ELSE IF schema.type = "object"
    THEN /\ v.kind = "object"
         /\ schema.hasProperties
               => \A n \in 1 .. Len(schema.properties) :
                     LET key == schema.properties[n].key
                         value == Get(v, key)
                     IN  \/ value = Undefined /\ ~ShapeRequires(schema, key)
                         \/ Accepts(schema.properties[n].schema, value)
    ELSE TRUE

\* --------------------------------------------------- validators, alone

\* Canonical schemas of the runs checked.
AnyType == Bare
OfType(type) == [Bare EXCEPT !.type = type]
StringOf(minLength, maxLength, pattern, format) ==
    [Bare EXCEPT !.type = "string", !.minLength = minLength,
                 !.maxLength = maxLength, !.pattern = pattern, !.format = format]
NumberFrom(minimum) == [Bare EXCEPT !.type = "number", !.minimum = minimum]
ArrayOf(items) == [Bare EXCEPT !.type = "array", !.hasItems = TRUE, !.items = <<items>>]
Property(key, schema) == [key |-> key, schema |-> schema]
ObjectOf(properties, required) ==
    [Bare EXCEPT !.type = "object", !.hasProperties = TRUE,
                 !.properties = properties, !.hasRequired = TRUE,
                 !.required = required]
OneOf(members) == [Bare EXCEPT !.hasOneOf = TRUE, !.oneOf = members]
AnyOf(members) == [Bare EXCEPT !.hasAnyOf = TRUE, !.anyOf = members]
AllOf(members) == [Bare EXCEPT !.hasAllOf = TRUE, !.allOf = members]

\* resolveRef: the placeholder of a circular reference
CircularPlaceholder == [Bare EXCEPT !.type = "object", !.circular = TRUE]

StringSchemas ==
    {StringOf(minLength, maxLength, pattern, format) :
        minLength \in {Undefined, Num(0), Num(2)},
        maxLength \in {Undefined, Num(0), Num(3)},
        pattern \in {"", "^a"},
        format \in {"", "email", "date", "hostname"}}
    \cup {StringOf(Num(8), Undefined, "", "email"),
          StringOf(Undefined, Undefined, "", "uuid"),
          StringOf(Undefined, Undefined, "", "date-time")}

ObjectSchemas ==
    {ObjectOf(<<Property("a", OfType("string")), Property("b", OfType("number"))>>, required) :
        required \in {{}, {"a"}, {"a", "b"}, {"a", "c"}}}
    \cup {ObjectOf(<<Property("a", AnyType)>>, {"a"}),
          ObjectOf(<<Property("a", OfType("string"))>>, {"a"}),
          ObjectOf(<<Property("b", OfType("number"))>>, {"b"}),
          ObjectOf(<<Property("c", OfType("boolean"))>>, {"c"}),
          ObjectOf(<<Property("a", ObjectOf(<<Property("b", OfType("number"))>>, {"b"}))>>, {})}

MemberLists ==
    {<<>>,
     <<OfType("string")>>,
     <<OfType("string"), OfType("number")>>,
     <<StringOf(Num(2), Undefined, "", ""), NumberFrom(Num(10)), OfType("boolean")>>,
     <<StringOf(Num(2), Undefined, "", ""), StringOf(Undefined, Num(3), "", ""),
       StringOf(Undefined, Undefined, "^a", "")>>,
     <<ObjectOf(<<Property("a", OfType("string"))>>, {"a"}),
       ObjectOf(<<Property("b", OfType("number"))>>, {"b"})>>,
     <<ObjectOf(<<Property("a", OfType("string"))>>, {"a"}),
       ObjectOf(<<Property("b", OfType("number"))>>, {"b"}),
       ObjectOf(<<Property("c", OfType("boolean"))>>, {"c"})>>,
     <<OfType("object"), AnyType, ObjectOf(<<Property("c", OfType("boolean"))>>, {"c"})>>}

CompositeSchemas ==
    {OneOf(members) : members \in MemberLists}
    \cup {AnyOf(members) : members \in MemberLists}
    \cup {AllOf(members) : members \in MemberLists}

\* Schemas with a composite keyword and siblings: a type with bounds, the
\* keywords of an object, other composite keywords.
SiblingSchemas ==
    LET strings == <<OfType("string"), StringOf(Num(2), Undefined, "", "")>>
        numbers == <<OfType("number")>>
        objects == <<ObjectOf(<<Property("a", OfType("string"))>>, {"a"}),
                     ObjectOf(<<Property("b", OfType("number"))>>, {"b"})>>
    IN  {[OneOf(strings) EXCEPT !.type = "number", !.minimum = Num(10)],
         [AnyOf(numbers) EXCEPT !.type = "string", !.minLength = Num(2),
                                !.maxLength = Num(3), !.pattern = "^a"],
         [AllOf(objects) EXCEPT !.type = "object", !.hasProperties = TRUE,
                                !.properties = <<Property("c", OfType("boolean"))>>,
                                !.hasRequired = TRUE, !.required = {"c"}],
         [AllOf(strings) EXCEPT !.type = "boolean"],
         [OneOf(strings) EXCEPT !.hasAnyOf = TRUE, !.anyOf = numbers],
         [OneOf(strings) EXCEPT !.hasAllOf = TRUE, !.allOf = objects],
         [AnyOf(numbers) EXCEPT !.hasAllOf = TRUE, !.allOf = strings],
         [OneOf(<<>>) EXCEPT !.hasAnyOf = TRUE, !.anyOf = strings,
                             !.hasAllOf = TRUE, !.allOf = <<>>],
         [OneOf(numbers) EXCEPT !.hasAnyOf = TRUE, !.anyOf = objects,
                                !.hasAllOf = TRUE, !.allOf = strings,
                                !.type = "array"]}

OtherSchemas ==
    {AnyType, OfType("number"), OfType("integer"), NumberFrom(Num(10)),
     OfType("boolean"), OfType("object"), OfType("array"), OfType("null"),
     ArrayOf(OfType("string")), ArrayOf(CircularPlaceholder), CircularPlaceholder,
     ObjectOf(<<Property("a", CircularPlaceholder)>>, {})}

ConverterSchemas ==
    StringSchemas \cup ObjectSchemas \cup CompositeSchemas \cup SiblingSchemas
    \cup OtherSchemas

\* JSON values of the runs checked.
ConverterStrings ==
    {<<>>, <<"a">>, <<"a", "b">>, <<"b", "a", "b">>, <<"a", "b", "c", "d">>,
     AnEmail, ADate, ADateTime, AUuid}
ConverterObjects ==
    {EmptyObject,
     Obj([k \in {"a"} |-> Str(<<"x">>)]),
     Obj([k \in {"a"} |-> Num(1)]),
     Obj([k \in {"a"} |-> EmptyObject]),
     Obj([k \in {"a"} |-> Obj([j \in {"b"} |-> Num(1)])]),
     Obj([k \in {"b"} |-> Num(5)]),
     Obj([k \in {"c"} |-> Bool(TRUE)]),
     Obj([k \in {"a", "b"} |-> IF k = "a" THEN Str(<<"x">>) ELSE Num(5)]),
     Obj([k \in {"a", "b"} |-> Str(<<"x">>)]),
     Obj([k \in {"a", "c"} |-> IF k = "a" THEN Str(<<"x">>) ELSE Bool(TRUE)]),
     Obj([k \in {"a", "b", "c"} |->
             IF k = "a" THEN Str(<<"x">>) ELSE IF k = "b" THEN Num(5) ELSE Bool(TRUE)]),
     Obj([k \in {"a", "d"} |-> IF k = "a" THEN Str(<<"x">>) ELSE Null])}
ConverterValues ==
    {Str(chars) : chars \in ConverterStrings}
    \cup ConverterObjects
    \cup {Null, Num(0), Num(5), Num(10), Bool(TRUE), Bool(FALSE),
          Arr(<<>>), Arr(<<Str(<<"a">>)>>), Arr(<<EmptyObject>>), Arr(<<Num(1)>>)}

\* const validator = converter.jsonSchemaToZod(schema), not yet used.
Built(schema, value) ==
    [kind |-> "validator", schema |-> schema, value |-> value, parsed |-> "no"]

\* validator.parse(value): returns, or throws a ZodError.
Parse ==
    /\ converter.kind = "validator"
    /\ converter.parsed = "no"
    /\ converter' = [converter EXCEPT !.parsed =
                        IF Accepts(converter.schema, converter.value)
                        THEN "returned" ELSE "thrown"]
    /\ UNCHANGED <<config, limiter, pc, timer, calls, stage, outcome, promise,
                   started, construction, client, server>>

ValidatorInit ==
    /\ LimiterInit
    /\ enabled /\ intervalMs = 25 /\ maxConcurrent = 1 /\ maxQueueSize = 1
    /\ construction = NoConstruction
    /\ client = NoClient
    /\ server = NoServer
    /\ converter \in {Built(schema, value) : schema \in ConverterSchemas,
                                              value \in ConverterValues}

ValidatorNext == Parse

ValidatorSpec == ValidatorInit /\ [][ValidatorNext]_vars

\* ------------------- SchemaConverter.openApiToJsonSchema and resolveRef

\* Names under #/components/schemas of the documents of the runs checked;
\* "Gone" is referred to and not there.
SchemaNames == {"A", "B", "C"}
RefTargets == SchemaNames \cup {"Gone"}

\* Schemas of a document: a string, a reference ({$ref}), or an object whose
\* properties are the children, in order.
Leaf == [is |-> "leaf"]
Ref(name) == [is |-> "ref", ref |-> name]
ObjectWith(children) == [is |-> "object", children |-> children]

\* Canonical schemas openApiToJsonSchema returns.
LeafSchema == [type |-> "string"]
ObjectSchemaOf(properties) == [type |-> "object", properties |-> properties]
\* return { type: 'object', _circular: true, _ref: ref }
Placeholder(ref) == [type |-> "object", circular |-> TRUE, ref |-> ref]

\* The schemas a document gives a name.
NamedSchemas ==
    {Leaf} \cup {Ref(name) : name \in RefTargets}
    \cup {ObjectWith(<<Ref(first), second>>) :
             first \in SchemaNames,
             second \in {Leaf} \cup {Ref(name) : name \in SchemaNames}}
Documents == [SchemaNames -> NamedSchemas]

\* Beside the fields of the SchemaConverter (spec, refStack, refCache) the
\* record of a converter holds the calls in progress (stack), whether the
\* latest call is being made, returned or threw (control) and what it
\* returned (result), the number of top-level conversions made, the schema of
\* the latest (root), and the references whose resolveRef threw in it (failed).

\* A call of openApiToJsonSchema(schema) or of resolveRef(ref) that has not
\* returned; done holds the properties converted so far.
ConvertFrame(schema) ==
    [fn |-> "openApiToJsonSchema", schema |-> schema, ref |-> "", done |-> <<>>]
ResolveFrame(ref) ==
    [fn |-> "resolveRef", schema |-> Leaf, ref |-> ref, done |-> <<>>]

\* new SchemaConverter(spec), and openApiToJsonSchema(schema) called on it.
Converting(spec, schema) ==
    [kind |-> "converter", spec |-> spec, stack |-> <<ConvertFrame(schema)>>,
     refStack |-> {}, refCache |-> [name \in {} |-> LeafSchema],
     control |-> "call", result |-> LeafSchema,
     conversions |-> 1, root |-> schema, failed |-> {}]

Top == converter.stack[Len(converter.stack)]
Callers == SubSeq(converter.stack, 1, Len(converter.stack) - 1)

\* this.refStack.has(ref)
HasNever(refStack, ref) == FALSE
Has(refStack, ref) == ref \in refStack

\* this.refStack.delete(ref) of the finally block
Delete(refStack, ref) == refStack \ {ref}

\* The finally block when the try block threw.
DeleteOnThrowSkipped(refStack, ref) == refStack
DeleteOnThrow(refStack, ref) == Delete(refStack, ref)

\* this.refCache.set(ref, result)
CacheSet(refCache, ref, result) ==
    [name \in DOMAIN refCache \cup {ref} |->
        IF name = ref THEN result ELSE refCache[name]]

ConverterUnchanged ==
    UNCHANGED <<config, limiter, pc, timer, calls, stage, outcome, promise,
                started, construction, client, server>>

\* openApiToJsonSchema on a schema that is no reference: a string is returned
\* as it is; an object converts its properties one by one, then returns.
OpenApiToJsonSchema ==
    /\ converter.kind = "converter"
    /\ converter.control = "call"
    /\ converter.stack # <<>>
    /\ Top.fn = "openApiToJsonSchema"
    /\ Top.schema.is # "ref"
    /\ IF Top.schema.is = "leaf"
       THEN converter' = [converter EXCEPT !.stack = Callers, !.control = "return",
                                           !.result = LeafSchema]
       ELSE IF Len(Top.done) < Len(Top.schema.children)
       THEN converter' = [converter EXCEPT !.stack =
                             Append(converter.stack,
                                    ConvertFrame(Top.schema.children[Len(Top.done) + 1]))]
       ELSE converter' = [converter EXCEPT !.stack = Callers, !.control = "return",
                                           !.result = ObjectSchemaOf(Top.done)]
    /\ ConverterUnchanged

\* openApiToJsonSchema on {$ref}: return this.resolveRef(schema.$ref), up to
\* the call of openApiToJsonSchema(current) or the throw.
ResolveRef ==
    /\ converter.kind = "converter"
    /\ converter.control = "call"
    /\ converter.stack # <<>>
    /\ Top.fn = "openApiToJsonSchema"
    /\ Top.schema.is = "ref"
    /\ LET ref == Top.schema.ref IN
       IF Has(converter.refStack, ref)
       THEN converter' = [converter EXCEPT !.stack = Callers, !.control = "return",
                                           !.result = Placeholder(ref)]
       ELSE IF ref \in DOMAIN converter.refCache
       THEN converter' = [converter EXCEPT !.stack = Callers, !.control = "return",
                                           !.result = converter.refCache[ref]]
       ELSE IF ref \notin DOMAIN converter.spec
       THEN converter' = [converter EXCEPT
                             !.stack = Append(converter.stack, ResolveFrame(ref)),
                             !.refStack = converter.refStack \cup {ref},
                             !.control = "throw"]
       ELSE converter' = [converter EXCEPT
                             !.stack = converter.stack \o
                                 <<ResolveFrame(ref), ConvertFrame(converter.spec[ref])>>,
                             !.refStack = converter.refStack \cup {ref}]
    /\ ConverterUnchanged

\* A call returns to its caller: resolveRef caches the result and leaves the
\* refStack; openApiToJsonSchema hands a reference's result on, or keeps a
\* property's and goes on.
ReturnTo ==
    /\ converter.kind = "converter"
    /\ converter.control = "return"
    /\ converter.stack # <<>>
    /\ IF Top.fn = "resolveRef"
       THEN converter' = [converter EXCEPT
                             !.stack = Callers,
                             !.refCache = CacheSet(converter.refCache, Top.ref,
                                                   converter.result),
                             !.refStack = Delete(converter.refStack, Top.ref)]
       ELSE IF Top.schema.is = "ref"
       THEN converter' = [converter EXCEPT !.stack = Callers]
       ELSE converter' = [converter EXCEPT
                             !.stack = Append(Callers, [Top EXCEPT !.done =
                                                       Append(Top.done, converter.result)]),
                             !.control = "call"]
    /\ ConverterUnchanged

\* The Error of line 101 leaves a call: resolveRef's finally block removes its
\* reference from the refStack.
Unwind ==
    /\ converter.kind = "converter"
    /\ converter.control = "throw"
    /\ converter.stack # <<>>
    /\ converter' = [converter EXCEPT
                        !.stack = Callers,
                        !.refStack = IF Top.fn = "resolveRef"
                                     THEN DeleteOnThrow(converter.refStack, Top.ref)
                                     ELSE converter.refStack,
                        !.failed = IF Top.fn = "resolveRef"
                                   THEN converter.failed \cup {Top.ref}
                                   ELSE converter.failed]
    /\ ConverterUnchanged

\* The schemas converted: a reference to a name, or an object of two.
RootSchemas ==
    {Ref(name) : name \in SchemaNames} \cup {ObjectWith(<<Ref("A"), Ref("B")>>)}

ResolveInit ==
    /\ LimiterInit
    /\ enabled /\ intervalMs = 25 /\ maxConcurrent = 1 /\ maxQueueSize = 1
    /\ construction = NoConstruction
    /\ client = NoClient
    /\ server = NoServer
    /\ converter \in {Converting(spec, schema) : spec \in Documents,
                                                  schema \in RootSchemas}

\* openApiToJsonSchema and resolveRef as functions of the document, the schema
\* (the reference) and the converter's refStack and refCache at the call: what
\* is returned or that the Error of line 101 is thrown, and the refCache
\* afterwards.
Returns(result, refCache) ==
    [thrown |-> FALSE, result |-> result, refCache |-> refCache]
ThrowsUnresolved(refCache) ==
    [thrown |-> TRUE, result |-> LeafSchema, refCache |-> refCache]

RECURSIVE openApiToJsonSchema(_, _, _, _)
RECURSIVE resolveRef(_, _, _, _)
RECURSIVE convertProperties(_, _, _, _, _)

openApiToJsonSchema(spec, schema, refStack, refCache) ==
    IF schema.is = "ref" THEN resolveRef(spec, schema.ref, refStack, refCache)
    ELSE IF schema.is = "leaf" THEN Returns(LeafSchema, refCache)
    ELSE convertProperties(spec, schema.children, <<>>, refStack, refCache)

\* for (const [key, value] of Object.entries(schema.properties)) ...
convertProperties(spec, children, done, refStack, refCache) ==
    IF children = <<>> THEN Returns(ObjectSchemaOf(done), refCache)
    ELSE LET first == openApiToJsonSchema(spec, Head(children), refStack, refCache) IN
         IF first.thrown THEN first
         ELSE convertProperties(spec, Tail(children), Append(done, first.result),
                                refStack, first.refCache)

resolveRef(spec, ref, refStack, refCache) ==
    IF ref \in refStack THEN Returns(Placeholder(ref), refCache)
    ELSE IF ref \in DOMAIN refCache THEN Returns(refCache[ref], refCache)
    ELSE IF ref \notin DOMAIN spec THEN ThrowsUnresolved(refCache)
    ELSE LET current == openApiToJsonSchema(spec, spec[ref], refStack \cup {ref},
                                            refCache)
         IN  IF current.thrown THEN current
             ELSE Returns(current.result,
                          CacheSet(current.refCache, ref, current.result))

\* new Map()
EmptyCache == [name \in {} |-> LeafSchema]

\* Documents of the runs with several conversions: A and B are a string, a
\* reference (to a name, or to nothing), or an object with a reference and a
\* string or a reference to nothing; C is a string.
CacheSchemas ==
    {Leaf} \cup {Ref(name) : name \in RefTargets}
    \cup {ObjectWith(<<Ref(first), second>>) :
             first \in SchemaNames, second \in {Leaf, Ref("Gone")}}
CacheDocuments == {spec \in [SchemaNames -> CacheSchemas] : spec["C"] = Leaf}

\* A further openApiToJsonSchema(schema) on the same converter, once the call
\* before has returned or thrown: refStack and refCache are as it left them.
ConvertAgain ==
    /\ converter.kind = "converter"
    /\ converter.stack = <<>>
    /\ converter.conversions < MaxConversions
    /\ \E schema \in RootSchemas :
          converter' = [converter EXCEPT
                            !.stack = <<ConvertFrame(schema)>>,
                            !.control = "call",
                            !.conversions = converter.conversions + 1,
                            !.root = schema,
                            !.failed = {}]
    /\ ConverterUnchanged

CacheInit ==
    /\ LimiterInit
    /\ enabled /\ intervalMs = 25 /\ maxConcurrent = 1 /\ maxQueueSize = 1
    /\ construction = NoConstruction
    /\ client = NoClient
    /\ server = NoServer
    /\ converter \in {Converting(spec, schema) : spec \in CacheDocuments,
                                                  schema \in RootSchemas}

CacheNext == OpenApiToJsonSchema \/ ResolveRef \/ ReturnTo \/ Unwind \/ ConvertAgain

CacheSpec == CacheInit /\ [][CacheNext]_vars

ResolveNext == OpenApiToJsonSchema \/ ResolveRef \/ ReturnTo \/ Unwind

\* The conversion is one synchronous call: it runs on while it can.
ResolveSpec == ResolveInit /\ [][ResolveNext]_vars /\ WF_vars(ResolveNext)

\* ------------------------------------------------------------------ claims

\* Position of request i in the order of invocation (0: not invoked).
StartIndex(i) ==
    IF i \in Range(started)
    THEN CHOOSE k \in 1 .. Len(started) : started[k] = i
    ELSE 0

\* Requests whose work item was started and has not settled.
Running == {i \in Requests : stage[i] = "running"}

\* Requests execute accepted into the queue.
Accepted(i) == stage[i] \notin {"none", "full", "direct", "directDone"}

\* Requests whose promise executeRequest settled.
Delivered(i) == stage[i] \in {"delivered", "released"}

\* C1: with the limiter enabled, the in-flight count and the number of work
\* items started and not yet settled never exceed maxConcurrent.
C1_ConcurrencyBound ==
    enabled =>
        /\ concurrentRequests <= maxConcurrent
        /\ Cardinality(Running) <= maxConcurrent

\* More calls than slots: two work items run, a third request waits at the
\* concurrency gate.
C1_Witness ==
    /\ enabled
    /\ maxConcurrent = 2
    /\ Cardinality(Running) = 2
    /\ concurrentRequests = 2
    /\ Len(requestQueue) > 0
    /\ pc = "slotSleep"

\* C2: with the limiter enabled, every dispatch after the first happens at
\* least intervalMs after the previous one.
C2_DispatchSpacing ==
    [][(enabled /\ Len(started) > 0 /\ Len(started') > Len(started))
          => sinceLastRequest >= intervalMs]_vars

\* A second dispatch that had to wait for the interval and for the only slot.
C2_Witness ==
    /\ enabled
    /\ intervalMs = MaxInterval
    /\ maxConcurrent = 1
    /\ Len(started) = 2
    /\ sinceLastRequest = 0

\* C3: with the limiter enabled, the queue never holds more than
\* maxQueueSize requests.
C3_QueueBound == enabled => Len(requestQueue) <= maxQueueSize

\* The queue is at its bound and a further call was turned away.
C3_Witness ==
    /\ enabled
    /\ maxQueueSize = 2
    /\ Len(requestQueue) = maxQueueSize
    /\ \E i \in Requests : stage[i] = "full"

\* C4: execute on a full queue rejects the call at once with the queue-full
\* error and leaves queue, in-flight count and last dispatch time alone; the
\* work item of a call rejected so is never invoked.
C4_QueueFullRejects ==
    /\ [][(enabled /\ calls' = calls + 1 /\ Len(requestQueue) >= maxQueueSize)
            => /\ promise'[calls'].state = "rejected"
               /\ promise'[calls'].value.name = "RateLimitQueueFullError"
               /\ UNCHANGED <<requestQueue, concurrentRequests, sinceLastRequest,
                              started, outcome>>]_vars
    /\ [](\A i \in Requests :
            stage[i] = "full" => i \notin Range(started) /\ outcome[i] = Unsettled)

\* A call was rejected by a queue that really held requests, and the
\* requests accepted before it ran to completion afterwards.
C4_Witness ==
    /\ enabled
    /\ maxQueueSize = 1
    /\ stage[3] = "full"
    /\ stage[1] = "released"
    /\ stage[2] = "released"

\* C5: with the limiter enabled, work items start in the order their calls
\* were accepted: once b has started, every request accepted before b and
\* not cleared has started before it.
C5_FifoDispatch ==
    enabled =>
        \A a, b \in Requests :
            (a < b /\ Accepted(a) /\ stage[a] # "cleared" /\ b \in Range(started))
                => (a \in Range(started) /\ StartIndex(a) < StartIndex(b))

\* Three requests started in call order with two slots, the second one
\* finished before the first.
C5_Witness ==
    /\ enabled
    /\ maxConcurrent = 2
    /\ started = <<1, 2, 3>>
    /\ stage[1] = "running"
    /\ stage[2] = "released"

\* C6: under the scheduling of the event loop, every queued request
\* is eventually dispatched or cleared; a loop whose queue is empty goes
\* idle; and an execute that finds the loop idle starts it.
C6_DrainLiveness ==
    /\ \A i \in Requests : (stage[i] = "queued") ~> (stage[i] # "queued")
    /\ (processing /\ Len(requestQueue) = 0)
          ~> (~processing \/ Len(requestQueue) > 0)
    /\ [][(enabled /\ ~processing /\ Len(requestQueue') > Len(requestQueue))
            => processing']_vars

\* A request was cleared, a later one accepted while the loop still slept
\* was served, the loop went idle, and a further execute restarted it.
C6_Witness ==
    /\ enabled
    /\ stage[1] = "cleared"
    /\ stage[2] = "released"
    /\ stage[3] = "queued"
    /\ processing

\* C7: the promise of a dispatched request settles with its own work item's
\* outcome: the same fulfilment value, or the same Error object; it stays
\* pending until then.
C7_OwnOutcome ==
    enabled =>
        \A i \in Requests :
            /\ Delivered(i) /\ outcome[i].state = "fulfilled"
                 => promise[i] = Fulfilled(ResultValue(i))
            /\ Delivered(i) /\ outcome[i] = Rejected(WorkError(i))
                 => promise[i] = Rejected(WorkError(i))
            /\ stage[i] \in {"queued", "running"}
                 => promise[i] = Unsettled

\* Two requests in flight together settled out of order, one with a value,
\* one with an Error.
C7_Witness ==
    /\ enabled
    /\ started = <<1, 2>>
    /\ stage[2] = "released"
    /\ promise[2] = Rejected(WorkError(2))
    /\ stage[1] = "delivered"
    /\ promise[1] = Fulfilled(ResultValue(1))

\* C8 as stated: a rejection value that is no Error object reaches the
\* caller as the same value.
C8_NonErrorPreserved ==
    enabled =>
        \A i \in Requests :
            (Delivered(i) /\ outcome[i] = Rejected(WorkString(i)))
                => promise[i] = Rejected(WorkString(i))

\* C8: a rejection value that is no Error object reaches the caller wrapped
\* in a new Error whose message is the string form of the value.
C8_NonErrorWrapped ==
    enabled =>
        \A i \in Requests :
            (Delivered(i) /\ outcome[i] = Rejected(WorkString(i)))
                => /\ promise[i].state = "rejected"
                   /\ InstanceOfError(promise[i].value)
                   /\ promise[i].value.ref = <<"limiter", i>>
                   /\ promise[i].value.text = String(WorkString(i))

\* A work item rejected with a string and the caller's promise was settled.
C8_Witness ==
    /\ enabled
    /\ \E i \in Requests :
          /\ Delivered(i)
          /\ outcome[i] = Rejected(WorkString(i))
          /\ stage[i] = "released"

\* The error clearQueue rejects request i with.
QueueCleared(i) == Rejected(NewError(<<"Queue cleared", 0>>, i))

\* C9: clearQueue rejects every queued request with 'Queue cleared', empties
\* the queue, and touches neither the in-flight count nor any request that
\* was dispatched; a dispatched request is never given 'Queue cleared'.
C9_ClearQueue ==
    /\ [][(\E i \in Requests : stage[i] = "queued" /\ stage'[i] = "cleared")
            => /\ \A i \in Requests :
                     IF stage[i] = "queued"
                     THEN stage'[i] = "cleared" /\ promise'[i] = QueueCleared(i)
                     ELSE stage'[i] = stage[i] /\ promise'[i] = promise[i]
               /\ requestQueue' = <<>>
               /\ UNCHANGED <<concurrentRequests, outcome, started>>]_vars
    /\ [](\A i \in Requests :
            /\ stage[i] = "cleared" => promise[i] = QueueCleared(i)
            /\ Delivered(i) => promise[i] = Settlement(outcome[i], i))

\* Two queued requests were cleared while a third was in flight, and that
\* one then fulfilled.
C9_Witness ==
    /\ enabled
    /\ stage[2] = "cleared"
    /\ stage[3] = "cleared"
    /\ stage[1] = "released"
    /\ promise[1] = Fulfilled(ResultValue(1))

\* C10: with the limiter disabled, execute invokes the work item within the
\* call, never rejects it as queue-full, leaves queue, in-flight count and
\* last dispatch time alone, and hands the work item's outcome to the caller
\* unchanged.
C10_DisabledPassThrough ==
    /\ [][(~enabled /\ calls' = calls + 1)
            => /\ started' = Append(started, calls')
               /\ stage'[calls'] \in {"direct", "directDone"}
               /\ UNCHANGED <<requestQueue, concurrentRequests, sinceLastRequest,
                              processing>>]_vars
    /\ [](~enabled =>
            /\ requestQueue = <<>> /\ concurrentRequests = 0 /\ ~processing
            /\ \A i \in Requests :
                  /\ stage[i] = "directDone" => promise[i] = outcome[i]
                  /\ stage[i] = "direct" => promise[i] = Unsettled)

\* A disabled limiter with maxQueueSize 0 took every call; one work item
\* rejected with a string and the caller got that string.
C10_Witness ==
    /\ ~enabled
    /\ maxQueueSize = 0
    /\ calls = MaxCalls
    /\ \A i \in Requests : stage[i] = "directDone"
    /\ promise[1] = Rejected(WorkString(1))
    /\ promise[2] = Fulfilled(ResultValue(2))

\* C11: a queue-full rejection carries retryAfter > 0, the queue length at the
\* moment of the rejection and the configured maxQueueSize.
C11_RetryInformation ==
    [][(enabled /\ calls' = calls + 1 /\ stage'[calls'] = "full")
          => /\ promise'[calls'].value.info[1] > 0
             /\ promise'[calls'].value.info[2] = Len(requestQueue)
             /\ promise'[calls'].value.info[3] = maxQueueSize]_vars

\* C12: the constructor throws exactly when the effective intervalMs < 0,
\* maxConcurrent < 1 or maxQueueSize < 0, so that every limiter that exists has
\* intervalMs >= 0, maxConcurrent >= 1 and maxQueueSize >= 0.
C12_ValidatedConfiguration ==
    instance # NotBuilt =>
        /\ instance.kind = "thrown" <=>
               \/ LessThan(instance.fields.intervalMs, Num(0))
               \/ LessThan(instance.fields.maxConcurrent, Num(1))
               \/ LessThan(instance.fields.maxQueueSize, Num(0))
        /\ instance.kind = "limiter" =>
               /\ AtLeast(instance.fields.intervalMs, Num(0))
               /\ AtLeast(instance.fields.maxConcurrent, Num(1))
               /\ AtLeast(instance.fields.maxQueueSize, Num(0))

\* The parameters of a tool declared required that have no value in params,
\* each with the place of its declaration.
RequiredMissing(tool, params) ==
    UNION {{<<t, tool.http.parameters[t][n].key>> :
               n \in {m \in 1 .. Len(tool.http.parameters[t]) :
                         /\ tool.http.parameters[t][m].paramDef.required
                         /\ params[tool.http.parameters[t][m].key] = Undefined}} :
           t \in {"path", "query", "header"}}

\* The latest step was a call of executeToolRequest.
Called == lastCall = NoCall /\ lastCall' # NoCall

\* C13: a call of executeToolRequest in which a required path, query or header
\* parameter has no value throws an error naming such a parameter; the limiter
\* is not called (no new call, queue and in-flight count as before) and no
\* HTTP request is issued.
C13_MissingRequiredParameter ==
    [][(Called /\ RequiredMissing(lastCall'.tool, lastCall'.params) # {})
          => /\ lastCall'.assembled.kind = "thrown"
             /\ InstanceOfError(lastCall'.assembled.error)
             /\ \E m \in RequiredMissing(lastCall'.tool, lastCall'.params) :
                   lastCall'.assembled.error.text
                       = <<"Required parameter is missing", m[1], m[2]>>
             /\ lastCall'.request = 0
             /\ calls' = calls
             /\ requestQueue' = requestQueue
             /\ concurrentRequests' = concurrentRequests
             /\ started' = started
             /\ stage' = stage]_vars

\* Two required parameters without a value, in different places, while one
\* request is in flight and another is queued: the call throws.
C13_Witness ==
    /\ lastCall # NoCall
    /\ Cardinality(RequiredMissing(lastCall.tool, lastCall.params)) = 2
    /\ lastCall.assembled.kind = "thrown"
    /\ lastCall.request = 0
    /\ concurrentRequests = 1
    /\ Len(requestQueue) = 1
    /\ calls = 2

\* C14: with an object body schema that declares properties, the body sent
\* holds exactly the declared properties that have a value in params, each
\* with the caller's value, and nothing else.
C14_DeclaredBodyOnly ==
    (/\ lastCall # NoCall
     /\ lastCall.assembled.kind = "config"
     /\ lastCall.tool.http.requestBody # NoRequestBody
     /\ lastCall.tool.http.requestBody.schema.type = "object"
     /\ lastCall.tool.http.requestBody.schema.hasProperties)
    => LET data == lastCall.assembled.config.data
           declared == Range(lastCall.tool.http.requestBody.schema.properties)
       IN  /\ data.kind = "object"
           /\ DOMAIN data.entries
                 = {p \in declared : lastCall.params[p] # Undefined}
           /\ \A p \in DOMAIN data.entries : data.entries[p] = lastCall.params[p]

\* The body declares a; the caller gives a and b, b being a query parameter:
\* the body is {a}, b goes to the query string.
C14_Witness ==
    /\ lastCall # NoCall
    /\ lastCall.assembled.kind = "config"
    /\ lastCall.tool.http.requestBody = RequestBody("object", TRUE, <<"a">>)
    /\ lastCall.params = [k \in Keys |-> IF k = "a" THEN Str(<<"x">>) ELSE Str(<<"y">>)]
    /\ Len(lastCall.tool.http.parameters["query"]) = 1
    /\ lastCall.assembled.config.data = Obj([k \in {"a"} |-> Str(<<"x">>)])
    /\ lastCall.assembled.config.params = Obj([k \in {"b"} |-> Str(<<"y">>)])

\* Requests whose axios.request settled.
Answered == {i \in Requests : response[i] # NoResponse}

\* C15: a request answered with a status >= 400, or not answered at all,
\* rejects with an error; a request fulfils, with the response body, only on a
\* status below 400.
C15_FailuresReject ==
    \A i \in Answered :
        /\ (response[i].kind # "response" \/ response[i].status >= 400)
              => /\ promise[i].state = "rejected"
                 /\ InstanceOfError(promise[i].value)
        /\ promise[i].state = "fulfilled"
              => /\ response[i].kind = "response"
                 /\ response[i].status < 400
                 /\ promise[i].value = response[i].data

\* One request answered 400 and one answered 500 were rejected, one answered
\* 399 got its body.
C15_Witness ==
    \E i, j, k \in Answered :
        /\ response[i].kind = "response" /\ response[i].status = 400
        /\ promise[i].state = "rejected"
        /\ response[j].kind = "response" /\ response[j].status = 500
        /\ promise[j].state = "rejected"
        /\ response[k].kind = "response" /\ response[k].status = 399
        /\ promise[k] = Fulfilled(ResponseData(k))

\* How often request i was handed to the network.
TimesStarted(i) == Cardinality({k \in 1 .. Len(started) : started[k] = i})

\* Requests a handler awaits or awaited.
Handled == {i \in Requests : handler[i] # NoHandler}

\* C16: no retry.  A tools/call request makes at most one call of the request
\* executor and at most one HTTP request, whatever its outcome: a step calls
\* the limiter at most once, and only as that of the request being handled;
\* no request is started twice; a reply changes nothing in the limiter.
C16_NoRetry ==
    [][/\ calls' \in {calls, calls + 1}
       /\ calls' = calls + 1
             => /\ invocation = NoInvocation
                /\ invocation' # NoInvocation
                /\ invocation'.request = calls'
                /\ lastCall'.request = calls'
       /\ (invocation' # NoInvocation /\ invocation'.result # "pending")
             => calls' = calls /\ started' = started /\ requestQueue' = requestQueue
       /\ \A i \in Requests :
             /\ TimesStarted(i)' <= 1
             /\ stage'[i] = "full" => TimesStarted(i)' = 0
             /\ reply'[i] # reply[i]
                   => calls' = calls /\ started' = started
                      /\ requestQueue' = requestQueue]_vars

\* Two requests were handled: the first was answered 500 and its handler
\* replied with an error, the second was refused by the full queue and its
\* handler replied too; one HTTP request was made in all.
C16_Witness ==
    /\ calls = 2
    /\ response[1].kind = "response" /\ response[1].status = 500
    /\ reply[1] # NoReply /\ reply[1].content[1].text.prefix = "Error: "
    /\ stage[2] = "full"
    /\ reply[2] # NoReply
    /\ started = <<1>>

\* A reply has the form {content: [{type: 'text', text}]}.
IsReply(r) == Len(r.content) = 1 /\ r.content[1].type = "text"

\* The response of request i came and fails the output validator of its tool.
OutputRefused(i) ==
    /\ i \in Handled
    /\ promise[i].state = "fulfilled"
    /\ Issues(handler[i].outputSchema, promise[i].value.info[1]) # <<>>

\* Request i failed after input validation: in the limiter, upstream, in
\* transport, or at output validation.
FailedAfterInput(i) == promise[i].state = "rejected" \/ OutputRefused(i)

ToolNamed(name) ==
    LET at == {n \in 1 .. Len(filteredTools) : filteredTools[n].name = name}
    IN  IF at = {} THEN NoHandler
        ELSE filteredTools[CHOOSE n \in at : \A m \in at : n <= m]

\* The issues the input validator of the tool named finds in the arguments.
InputIssues(name, arguments) ==
    Issues(ToolNamed(name).inputSchema,
           IF arguments = Undefined THEN EmptyObject ELSE arguments)

\* The latest step was a tools/call request.
Invoked == invocation = NoInvocation /\ invocation' # NoInvocation

\* C18: when the arguments fail the input validator of the tool, the handler
\* replies with 'Input validation error: ' and the paths of the offending
\* fields, and the request executor is not called: no call of
\* executeToolRequest, none of the limiter, no HTTP request.
C18_InputValidation ==
    [][(/\ Invoked
        /\ ToolNamed(invocation'.name) # NoHandler
        /\ InputIssues(invocation'.name, invocation'.arguments) # <<>>)
          => /\ invocation'.result = "reply"
             /\ IsReply(invocation'.reply)
             /\ invocation'.reply.content[1].text.prefix = "Input validation error: "
             /\ invocation'.reply.content[1].text.body.value
                   = [n \in 1 .. Len(InputIssues(invocation'.name, invocation'.arguments))
                         |-> Join(InputIssues(invocation'.name, invocation'.arguments)[n])]
             /\ lastCall' = NoCall
             /\ calls' = calls
             /\ requestQueue' = requestQueue
             /\ started' = started
             /\ stage' = stage]_vars

\* A payment with a negative amount and a currency outside the enum, while a
\* request is in flight: the reply names both fields.
C18_Witness ==
    /\ invocation # NoInvocation
    /\ invocation.name = "payments_processPayment"
    /\ invocation.arguments = BadPayment
    /\ invocation.result = "reply"
    /\ invocation.reply.content[1].text
          = [prefix |-> "Input validation error: ",
             body |-> [kind |-> "issues", value |-> << <<"amount">>, <<"currency">> >>]]
    /\ lastCall = NoCall
    /\ concurrentRequests = 1

\* C19: when the response fails the output validator of the tool, the handler
\* replies with the pretty-printed JSON of the response as it came, never
\* with an 'Error: ' or a validation error text.
C19_OutputValidationIgnored ==
    \A i \in Handled :
        (OutputRefused(i) /\ reply[i] # NoReply)
           => /\ IsReply(reply[i])
              /\ reply[i].content[1].text
                    = [prefix |-> "", body |-> JsonStringify(response[i].data.info[1])]

\* A 200 response whose body is a string: the reply is that string as JSON.
C19_Witness ==
    \E i \in Handled :
        /\ response[i].kind = "response" /\ response[i].status = 200
        /\ response[i].data.info[1] = Str(<<"invalid string response">>)
        /\ reply[i] = TextReply("", JsonStringify(Str(<<"invalid string response">>)))

\* C20: a tools/call request that names a tool outside the filtered set fails
\* with a not-found error and calls nothing; and under a read-only
\* configuration every tool that is executed has scope read.
C20_FilteredToolsOnly ==
    [][/\ (Invoked /\ ToolNamed(invocation'.name) = NoHandler)
             => /\ invocation'.result = "thrown"
                /\ invocation'.error = ToolNotFound(invocation'.name)
                /\ lastCall' = NoCall
                /\ calls' = calls
                /\ requestQueue' = requestQueue
                /\ started' = started
                /\ handler' = handler
       /\ \A i \in Requests :
             handler'[i] # handler[i]
                => /\ Invoked
                   /\ handler'[i] = ToolNamed(invocation'.name)
                   /\ serverConfig.scope = "read" => handler'[i].scope = "read"]_vars

\* Read-only configuration, tools loaded: a read tool was executed and a call
\* of the write tool was answered not found.
C20_Witness ==
    /\ serverConfig.scope = "read"
    /\ Len(precompiledTools) = Len(MockTools)
    /\ \E i \in Handled : i \in Range(started) /\ handler[i].scope = "read"
    /\ invocation # NoInvocation
    /\ invocation.name = "payments_processPayment"
    /\ invocation.result = "thrown"

\* The pieces of a comma-separated string, as sets of positions: the text
\* between two commas (or an end) with no comma in between.
Segments(s) ==
    LET ends == {0, Len(s) + 1} \cup {n \in 1 .. Len(s) : s[n] = ","} IN
    {SubSeq(s, a + 1, b - 1) :
        <<a, b>> \in {e \in ends \X ends :
                         e[1] < e[2] /\ \A m \in ends : ~(e[1] < m /\ m < e[2])}}

\* The names a service list gives once the blanks around them are dropped
\* (no name of the runs checked has a blank inside).
ListedServices(service) ==
    {SelectSeq(seg, LAMBDA c : c # " ") : seg \in Segments(service.chars)}

\* The two predicates of C21 for tool t under configuration cfg.
Keeps(cfg, t) ==
    /\ cfg.scope # "read" \/ t.scope = "read"
    /\ \/ cfg.service = Undefined \/ cfg.service.chars = <<>>
       \/ t.service \in ListedServices(cfg.service)

\* C21: the filtered set is the sub-list, in the order of the loaded list, of
\* the loaded tools that satisfy both the scope predicate and the service
\* predicate; with neither filter configured it is the loaded list.
C21_FilteredExactly ==
    /\ filteredTools = SelectSeq(precompiledTools, LAMBDA t : Keeps(serverConfig, t))
    /\ (serverConfig.scope # "read" /\ serverConfig.service = Undefined)
          => filteredTools = precompiledTools

\* Read-only configuration with the list ' cards , users': of the three tools
\* loaded the two read tools are kept, in the order of the file.
C21_Witness ==
    /\ serverConfig.scope = "read"
    /\ serverConfig.service = Str(<<" ", "cards", " ", ",", " ", "users">>)
    /\ precompiledTools = MockTools
    /\ filteredTools = <<users_getUser, cards_getCardOptionalId>>

\* A step of loadTools that assigned.
Loaded == precompiledTools' # precompiledTools \/ filteredTools' # filteredTools

\* C22: a successful loadTools replaces what was loaded: the loaded list is
\* the list of the file read, the filtered set is the filter applied to it
\* and holds tools of that file only; a tools/call request for a tool that is
\* not in the list loaded last is answered not found.
C22_LoadReplaces ==
    [][/\ Loaded
             => \E file \in CatalogueFiles :
                   /\ file.ok
                   /\ precompiledTools' = file.tools
                   /\ filteredTools'
                         = SelectSeq(file.tools, LAMBDA t : Keeps(serverConfig, t))
                   /\ Range(filteredTools') \subseteq Range(file.tools)
       /\ (/\ Invoked
           /\ invocation'.name
                 \notin {precompiledTools[n].name : n \in 1 .. Len(precompiledTools)})
             => /\ invocation'.result = "thrown"
                /\ invocation'.error = ToolNotFound(invocation'.name)]_vars

\* cards_getCard was called and executed; the file then read has no such
\* tool, and a call of it is answered not found.
C22_Witness ==
    /\ handler[1] = cards_getCardOptionalId
    /\ precompiledTools = <<users_getUser, users_createUser>>
    /\ filteredTools = <<users_getUser, users_createUser>>
    /\ invocation # NoInvocation
    /\ invocation.name = "cards_getCard"
    /\ invocation.result = "thrown"
\* A validator has parsed its value.
Tried == converter.kind = "validator" /\ converter.parsed # "no"
Returned == converter.parsed = "returned"

\* The schema is read by its type: it is no placeholder and has no oneOf, anyOf
\* or allOf.
ByType(schema) ==
    ~schema.circular /\ ~schema.hasOneOf /\ ~schema.hasAnyOf /\ ~schema.hasAllOf

\* Every key of the required list is there, and every declared key that is
\* there satisfies its sub-schema.
RequiredAndDeclaredHold(schema, v) ==
    /\ \A key \in schema.required : key \in DOMAIN v.entries
    /\ \A n \in 1 .. Len(schema.properties) :
          schema.properties[n].key \in DOMAIN v.entries
              => Accepts(schema.properties[n].schema,
                         v.entries[schema.properties[n].key])

\* C23 (as stated): the validator of an object schema with properties and a
\* required list accepts an object if and only if every key of the required
\* list is present and every present declared key satisfies its sub-schema.
C23_ObjectIff ==
    (/\ Tried
     /\ ByType(converter.schema)
     /\ converter.schema.type = "object"
     /\ converter.schema.hasProperties
     /\ converter.schema.hasRequired
     /\ converter.value.kind = "object")
        => (Returned <=> RequiredAndDeclaredHold(converter.schema, converter.value))

\* The members of a oneOf or anyOf schema (oneOf is looked at first).
UnionMembers(schema) == IF schema.hasOneOf THEN schema.oneOf ELSE schema.anyOf

\* C24: a validator built from oneOf or anyOf accepts a value if and only if
\* at least one member's validator accepts it: none with zero members, and
\* what the member accepts with one.
C24_UnionIff ==
    (/\ Tried
     /\ ~converter.schema.circular
     /\ converter.schema.hasOneOf \/ converter.schema.hasAnyOf)
        => LET members == UnionMembers(converter.schema) IN
           /\ Returned <=> \E n \in 1 .. Len(members) :
                              Accepts(members[n], converter.value)
           /\ Len(members) = 0 => ~Returned
           /\ Len(members) = 1 => (Returned <=> Accepts(members[1], converter.value))

\* A union of three members took a value its first two members refuse.
C24_Witness ==
    /\ Tried /\ Returned
    /\ converter.schema.hasAnyOf /\ ~converter.schema.hasOneOf
    /\ Len(converter.schema.anyOf) = 3
    /\ ~Accepts(converter.schema.anyOf[1], converter.value)
    /\ ~Accepts(converter.schema.anyOf[2], converter.value)

\* C25: a validator built from allOf accepts a value if and only if every
\* member's validator accepts it, whatever the number of members.
C25_IntersectionIff ==
    (/\ Tried
     /\ ~converter.schema.circular
     /\ ~converter.schema.hasOneOf /\ ~converter.schema.hasAnyOf
     /\ converter.schema.hasAllOf)
        => LET members == converter.schema.allOf IN
           /\ Returned <=> \A n \in 1 .. Len(members) :
                              Accepts(members[n], converter.value)
           /\ Len(members) = 0 => Returned
           /\ Len(members) = 1 => (Returned <=> Accepts(members[1], converter.value))

\* An intersection of three members refused a value only its last member
\* refuses.
C25_Witness ==
    /\ Tried /\ ~Returned
    /\ ByType([converter.schema EXCEPT !.hasAllOf = FALSE])
    /\ converter.schema.hasAllOf
    /\ Len(converter.schema.allOf) = 3
    /\ Accepts(converter.schema.allOf[1], converter.value)
    /\ Accepts(converter.schema.allOf[2], converter.value)
    /\ ~Accepts(converter.schema.allOf[3], converter.value)

\* What C26 asks of a string: every bound given counts, 0 included, and the
\* length and pattern constraints count also when a format is set.
EveryStringConstraint(schema, chars) ==
    /\ schema.minLength # Undefined => Len(chars) >= schema.minLength.n
    /\ schema.maxLength # Undefined => Len(chars) <= schema.maxLength.n
    /\ schema.pattern # "" => Matches(schema.pattern, chars)
    /\ FormatCheck(schema.format, chars)

\* C26 (as stated): the validator of a string schema without enum accepts a
\* value if and only if it is a string within minLength and maxLength (0
\* included), matching pattern, and passing the check of a known format.
C26_StringIff ==
    (/\ Tried
     /\ ByType(converter.schema)
     /\ converter.schema.type = "string"
     /\ converter.schema.enum = <<>>)
        => (Returned <=> /\ converter.value.kind = "string"
                         /\ EveryStringConstraint(converter.schema,
                                                  converter.value.chars))

\* C28 (as stated): the validator of a circular placeholder accepts any value.
C28_PlaceholderAcceptsAll ==
    (Tried /\ converter.schema.circular) => Returned


\* The conversion is over: it returned a schema or threw.
Converted == converter.kind = "converter" /\ converter.stack = <<>>

\* The references being resolved: those of the calls of resolveRef that have
\* not returned.
BeingResolved ==
    {converter.stack[n].ref :
        n \in {m \in 1 .. Len(converter.stack) : converter.stack[m].fn = "resolveRef"}}

\* A reference is met while it is being resolved.
MeetsOwnReference ==
    /\ converter.control = "call"
    /\ converter.stack # <<>>
    /\ Top.fn = "openApiToJsonSchema"
    /\ Top.schema.is = "ref"
    /\ Top.schema.ref \in BeingResolved

\* C27: converting a schema of a finite document terminates, cyclic $ref
\* graphs included, and a reference met while it is being resolved yields the
\* circular placeholder at once, no call being added; the references the
\* converter holds as being resolved are exactly those of the calls of
\* resolveRef in progress, each once.
C27_Terminates ==
    /\ <>Converted
    /\ [](converter.kind = "converter" =>
             /\ converter.refStack = BeingResolved
             /\ \A m, n \in 1 .. Len(converter.stack) :
                   (/\ converter.stack[m].fn = "resolveRef"
                    /\ converter.stack[n].fn = "resolveRef"
                    /\ converter.stack[m].ref = converter.stack[n].ref) => m = n)
    /\ [][MeetsOwnReference =>
             /\ converter'.control = "return"
             /\ converter'.result = Placeholder(Top.schema.ref)
             /\ Len(converter'.stack) < Len(converter.stack)
             /\ converter'.refStack = converter.refStack]_vars

\* A conversion through a cycle of three references returned, with the
\* placeholder of the first in the result of the last.
C27_Witness ==
    /\ Converted
    /\ converter.control = "return"
    /\ converter.spec["A"] = Ref("B")
    /\ converter.spec["B"] = Ref("C")
    /\ converter.spec["C"] = ObjectWith(<<Ref("A"), Leaf>>)
    /\ converter.result = ObjectSchemaOf(<<Placeholder("A"), LeafSchema>>)

\* C29: at most one drain loop is active per limiter: the processing flag is
\* true exactly while processQueue is running or suspended, and an execute or
\* a clearQueue that comes while it is leaves the loop where it is, starting
\* no second one; the loop is started only by an execute that finds it idle.
C29_SingleDrainLoop ==
    /\ [](processing <=> pc # "idle")
    /\ [][/\ (pc # "idle" /\ calls' # calls)
              => UNCHANGED <<pc, timer, processing>>
          /\ (started' = started /\ Len(requestQueue') < Len(requestQueue))
              => UNCHANGED <<pc, timer, processing>>
          /\ (\E i \in Requests : /\ stage[i] \in {"running", "delivered"}
                                  /\ stage'[i] # stage[i])
              => UNCHANGED <<pc, timer, processing>>
          /\ (pc = "idle" /\ pc' # "idle")
              => /\ calls' = calls + 1
                 /\ requestQueue' = Append(requestQueue, calls')
                 /\ processing']_vars

\* Two execute calls came while the drain loop started by the first was
\* running; it is still the one loop, waiting for a slot.
C29_Witness ==
    /\ enabled /\ maxConcurrent = 1
    /\ calls = 3
    /\ stage[1] = "running"
    /\ requestQueue = <<2, 3>>
    /\ processing
    /\ pc = "slotSleep"

\* Dispatched requests whose completion callback has not run.
InFlight == {i \in Requests : stage[i] \in {"running", "delivered"}}

\* C30: the in-flight count is never negative and equals the number of
\* dispatched requests whose completion callback has not run (0 when all have
\* run); it goes up by one exactly when a request is dispatched and down by
\* one exactly when the callback of a settled one runs, however it settled.
C30_InFlightCount ==
    /\ [](/\ concurrentRequests >= 0
          /\ concurrentRequests = Cardinality(InFlight)
          /\ \A i \in Requests : TimesStarted(i) <= 1)
    /\ [][LET dispatched == {i \in Requests : stage[i] = "queued" /\ stage'[i] \in
                                                  {"running", "delivered"}}
              settled == {i \in Requests : stage[i] = "delivered"
                                             /\ stage'[i] = "released"}
          IN  /\ Cardinality(dispatched) + Cardinality(settled) <= 1
              /\ concurrentRequests' = concurrentRequests + Cardinality(dispatched)
                                           - Cardinality(settled)
              /\ \A i \in settled : promise[i].state \in {"fulfilled", "rejected"}]_vars

\* Every request was dispatched, one at least fulfilled and one at least
\* rejected; every callback ran and the count is back at 0.
C30_Witness ==
    /\ enabled
    /\ \A i \in Requests : stage[i] = "released"
    /\ \E i, j \in Requests :
          /\ promise[i].state = "fulfilled"
          /\ promise[j].state = "rejected"
    /\ concurrentRequests = 0

\* C31: no request is stranded: whenever the queue of an enabled limiter is
\* not empty the drain loop is active and the processing flag set; the flag
\* is cleared, and the loop ended, only with an empty queue.
C31_NoStrandedRequest ==
    /\ []((enabled /\ Len(requestQueue) > 0) => (processing /\ pc # "idle"))
    /\ [][((processing /\ ~processing') \/ (pc # "idle" /\ pc' = "idle"))
             => Len(requestQueue') = 0]_vars

\* A request queued after a clearQueue, behind one still running: the loop
\* that never went idle holds it.
C31_Witness ==
    /\ enabled
    /\ stage[1] = "running"
    /\ stage[2] = "cleared"
    /\ stage[3] = "queued"
    /\ processing
    /\ pc = "slotSleep"

\* The promise execute returned for request i is settled.
IsSettled(i) == promise[i].state # "pending"

\* C32: the work item of a request an enabled limiter accepted is invoked at
\* most once and its promise is settled once, by the outcome of its own work
\* item or by clearQueue, never both: a settled promise is not settled again,
\* and a request clearQueue rejected was not and is never invoked.
C32_SettledOnce ==
    /\ [](enabled => \A i \in Requests :
              /\ TimesStarted(i) <= 1
              /\ stage[i] = "cleared" => (TimesStarted(i) = 0 /\ IsSettled(i))
              /\ (IsSettled(i) /\ stage[i] # "full")
                    => \/ stage[i] = "cleared" /\ TimesStarted(i) = 0
                       \/ stage[i] \in {"delivered", "released"}
                            /\ TimesStarted(i) = 1
                            /\ promise[i] = Settlement(outcome[i], i))
    /\ [][enabled => \A i \in Requests :
              /\ IsSettled(i) => promise'[i] = promise[i]
              /\ stage[i] = "cleared" => stage'[i] = "cleared"]_vars

\* Of three accepted requests the second was rejected by clearQueue and never
\* invoked; the other two were invoked once each and settled by their work.
C32_Witness ==
    /\ enabled
    /\ started = <<1, 3>>
    /\ stage[1] = "released"
    /\ stage[2] = "cleared"
    /\ stage[3] = "delivered"
    /\ \A i \in Requests : IsSettled(i)

\* Accepted execute calls whose promise has not settled: queued, or
\* dispatched with the work item still pending.
Outstanding == {i \in Requests : stage[i] \in {"queued", "running"}}

\* C33: an enabled limiter never has more than maxQueueSize + maxConcurrent
\* accepted calls with an unsettled promise.
C33_BoundedOutstanding ==
    enabled =>
        /\ \A i \in Outstanding : ~IsSettled(i)
        /\ \A i \in Requests :
              (stage[i] \notin {"none", "full"} /\ ~IsSettled(i)) => i \in Outstanding
        /\ Cardinality(Outstanding) <= maxQueueSize + maxConcurrent

\* The bound is met (one running, one queued, with limits 1 and 1) and a
\* third call was refused.
C33_Witness ==
    /\ enabled /\ maxQueueSize = 1 /\ maxConcurrent = 1
    /\ stage[1] = "running"
    /\ stage[2] = "queued"
    /\ stage[3] = "full"
    /\ Cardinality(Outstanding) = 2

\* execute refused call i for a full queue.
QueueFullRefused(i) ==
    /\ promise[i].state = "rejected"
    /\ promise[i].value.name = "RateLimitQueueFullError"

\* C34: a handler whose valid arguments reach a limiter with a full queue
\* replies 'Error: Rate limit queue is full...'; its work item is never
\* invoked, so no HTTP request is issued for it; and the refusal changes
\* nothing of the limiter nor of any other request.
C34_QueueFullReply ==
    /\ [](\A i \in Handled :
             QueueFullRefused(i)
                => /\ i \notin Range(started)
                   /\ response[i] = NoResponse
                   /\ i \notin Range(requestQueue)
                   /\ reply[i] # NoReply
                         => /\ IsReply(reply[i])
                            /\ reply[i].content[1].text.prefix = "Error: "
                            /\ reply[i].content[1].text.body.value[1]
                                  = "Rate limit queue is full")
    /\ [][\A i \in Requests :
             (~QueueFullRefused(i) /\ QueueFullRefused(i)')
                => /\ UNCHANGED <<limiter, pc, timer, started, outcome>>
                   /\ \A j \in Requests \ {i} :
                         stage'[j] = stage[j] /\ promise'[j] = promise[j]]_vars

\* The second invocation found the queue full behind the first and was
\* answered; the first is still queued.
C34_Witness ==
    /\ enabled
    /\ Handled = {1, 2}
    /\ stage[1] = "queued"
    /\ QueueFullRefused(2)
    /\ reply[2] # NoReply
    /\ reply[1] = NoReply

\* The keys the input schema of a tool declares.
DeclaredKeys(schema) ==
    {schema.properties[n].key : n \in 1 .. Len(schema.properties)}

\* C35: the request executor is given the parsed value of the input
\* validator: with an object input schema that declares properties, it gets
\* the declared keys the arguments hold, with their values, and no other key;
\* the outbound request is assembled from those alone.
C35_ParsedInputOnly ==
    (/\ invocation # NoInvocation
     /\ lastCall # NoCall
     /\ lastCall.tool.inputSchema.type = "object"
     /\ lastCall.tool.inputSchema.hasProperties)
    => LET given == IF invocation.arguments = Undefined THEN EmptyObject
                    ELSE invocation.arguments
       IN  /\ lastCall.tool.name = invocation.name
           /\ DOMAIN lastCall.params
                 = DOMAIN given.entries \cap DeclaredKeys(lastCall.tool.inputSchema)
           /\ \A key \in DOMAIN lastCall.params :
                 lastCall.params[key] = given.entries[key]
           /\ lastCall.assembled = Assemble(lastCall.tool, lastCall.params)

\* users_getUser called with {id, extra}: the executor got {id}.
C35_Witness ==
    /\ invocation # NoInvocation
    /\ invocation.arguments = ExtraKey
    /\ invocation.result = "pending"
    /\ lastCall # NoCall
    /\ DOMAIN lastCall.params = {"id"}
    /\ lastCall.assembled.kind = "config"

\* C36: a loadTools that fails because the file is missing or is not JSON
\* rejects and leaves the loaded list and the filtered set as they were: the
\* tools of the load before stay listed, and a tools/call request for one of
\* them is still handled.
C36_FailedLoadKeeps ==
    [][/\ server'.load = "rejected"
             => /\ precompiledTools' = precompiledTools
                /\ filteredTools' = filteredTools
       /\ (precompiledTools' # precompiledTools \/ filteredTools' # filteredTools)
             => server'.load = "resolved"
       /\ (/\ server.load = "rejected"
           /\ Invoked
           /\ invocation'.name \in {filteredTools[n].name : n \in 1 .. Len(filteredTools)})
             => invocation'.result \in {"reply", "pending"}]_vars

\* After a load that read the five tools, a load failed; users_getUser is
\* then called and its request handed to the client.
C36_Witness ==
    /\ server.load = "rejected"
    /\ precompiledTools = MockTools
    /\ filteredTools # <<>>
    /\ invocation # NoInvocation
    /\ invocation.name = "users_getUser"
    /\ invocation.result = "pending"

\* A canonical schema without the names its placeholders carry in _ref.
RECURSIVE Shape(_)
Shape(schema) ==
    IF "circular" \in DOMAIN schema THEN [type |-> "object", circular |-> TRUE]
    ELSE IF "properties" \in DOMAIN schema
    THEN ObjectSchemaOf([n \in 1 .. Len(schema.properties) |->
                            Shape(schema.properties[n])])
    ELSE schema

\* What a fresh converter gives for the schema converted last.
OnFreshConverter == openApiToJsonSchema(converter.spec, converter.root, {}, EmptyCache)

\* C37 (as stated): the reference cache is transparent: whatever was converted
\* before on the same converter, a conversion ends as it does on a fresh
\* converter, with the same canonical schema (compared here even without the
\* _ref of the placeholders).
C37_CacheTransparent ==
    (converter.kind = "converter" /\ converter.stack = <<>>)
        => /\ (converter.control = "throw") <=> OnFreshConverter.thrown
           /\ converter.control = "return"
                 => Shape(converter.result) = Shape(OnFreshConverter.result)

\* The names the schema of a name refers to.
RefersTo(spec, name) ==
    IF name \notin DOMAIN spec THEN {}
    ELSE IF spec[name].is = "ref" THEN {spec[name].ref}
    ELSE IF spec[name].is = "object"
    THEN {spec[name].children[n].ref :
             n \in {m \in 1 .. Len(spec[name].children) :
                       spec[name].children[m].is = "ref"}}
    ELSE {}

\* The names reached from a set of names in at most k steps of reference.
RECURSIVE Reached(_, _, _)
Reached(spec, names, k) ==
    IF k = 0 THEN names
    ELSE Reached(spec, names \cup UNION {RefersTo(spec, name) : name \in names}, k - 1)

\* The name is part of a cycle of references.
OnCycle(spec, name) ==
    name \in Reached(spec, RefersTo(spec, name), Cardinality(RefTargets))

\* The references a canonical schema has placeholders for.
RECURSIVE PlaceholdersOf(_)
PlaceholdersOf(schema) ==
    IF "circular" \in DOMAIN schema THEN {schema.ref}
    ELSE IF "properties" \in DOMAIN schema
    THEN UNION {PlaceholdersOf(schema.properties[n]) :
                   n \in 1 .. Len(schema.properties)}
    ELSE {}

\* C38: after every top-level conversion, returned or failed, no reference is
\* held as being resolved and none whose resolution failed in it is cached;
\* no conversion, after a failed one or not, returns or caches a circular
\* placeholder for a reference that is not part of a cycle.
C38_CleanAfterFailure ==
    converter.kind = "converter" =>
        /\ converter.failed \cap DOMAIN converter.refCache = {}
        /\ converter.stack = <<>>
              => /\ converter.refStack = {}
                 /\ converter.control = "return"
                       => \A ref \in PlaceholdersOf(converter.result) :
                             OnCycle(converter.spec, ref)
        /\ \A name \in DOMAIN converter.refCache :
              /\ name \in DOMAIN converter.spec
              /\ \A ref \in PlaceholdersOf(converter.refCache[name]) :
                    OnCycle(converter.spec, ref)

\* A conversion of A failed on a missing target behind B; a second conversion
\* of A on the same converter failed again, nothing being held or cached.
C38_Witness ==
    /\ converter.kind = "converter"
    /\ converter.spec["A"] = Ref("B")
    /\ converter.spec["B"] = ObjectWith(<<Ref("A"), Ref("Gone")>>)
    /\ converter.conversions = 2
    /\ converter.root = Ref("A")
    /\ converter.stack = <<>>
    /\ converter.control = "throw"
    /\ converter.failed = {"A", "B", "Gone"}
    /\ converter.refStack = {}
    /\ DOMAIN converter.refCache = {}

\* The schema with the composite keyword jsonSchemaToZod goes by, and nothing
\* else.
FirstCompositeAlone(schema) ==
    IF schema.hasOneOf THEN OneOf(schema.oneOf)
    ELSE IF schema.hasAnyOf THEN AnyOf(schema.anyOf)
    ELSE AllOf(schema.allOf)

\* C39: the validator of a schema with a composite keyword is that of the
\* first present of oneOf, anyOf, allOf: it accepts what the schema with that
\* keyword alone accepts, whatever type, properties, required, bounds or other
\* composite keywords stand beside it.
C39_FirstCompositeOnly ==
    (/\ Tried
     /\ ~converter.schema.circular
     /\ converter.schema.hasOneOf \/ converter.schema.hasAnyOf
            \/ converter.schema.hasAllOf)
        => (Returned <=> Accepts(FirstCompositeAlone(converter.schema),
                                 converter.value))

\* A string is accepted by a schema whose oneOf takes strings although its
\* allOf asks for objects.
C39_Witness ==
    /\ Tried /\ Returned
    /\ converter.schema.hasOneOf /\ converter.schema.hasAllOf
    /\ converter.schema # FirstCompositeAlone(converter.schema)
    /\ converter.value.kind = "string"
    /\ ~Accepts(AllOf(converter.schema.allOf), converter.value)

====
